---- MODULE Spec2Model ----
(***************************************************************************)
(* A model of image-edit: the template registry (templates/registry.py),   *)
(* its lazy process-wide instance (get_registry), prompt resolution and    *)
(* the request orchestrator (core.py) on top of the Gemini provider        *)
(* (providers/gemini.py).                                                  *)
(*                                                                         *)
(* Python values are modelled as follows.                                  *)
(*   str            a TLA+ string                                          *)
(*   bytes          a sequence of integers 0..255                          *)
(*   None           the record None                                        *)
(*   dict           a record [keys, val]: the keys in insertion order (a   *)
(*                  Python dict keeps it) and the key -> value function    *)
(*   an exception   a record [raised |-> <type name>, ...]                 *)
(*   an object      an index into heap (TemplateRegistry instances)        *)
(***************************************************************************)
EXTENDS Integers, Sequences, FiniteSets, TLC

VARIABLES
    heap,            \* the TemplateRegistry instances created so far
    _registry,       \* registry.py:99, the global instance: 0 is None, else an index of heap
    templates_file,  \* ~/.config/image-edit/templates.toml as load_user_templates sees it
    environ,         \* os.environ, the variables config.py reads
    config_file,     \* ~/.config/image-edit/config.toml as _load_config_file sees it
    pc,              \* per thread inside get_registry: the line it is about to run
    frame,           \* per thread inside get_registry: its locals and what it returned
    log,             \* history: per instance, the templates passed to register, in call order
    call             \* history: the operation that completed last, its arguments and result

vars == <<heap, _registry, templates_file, environ, config_file, pc, frame, log, call>>

\* What the operations on the registry leave alone.
config_vars == <<environ, config_file>>

thread_vars == <<pc, frame>>

-----------------------------------------------------------------------------
(* Python values *)

None == [none |-> TRUE]

KeyError == [raised |-> "KeyError"]

\* dict(): no keys.
DictEmpty == [keys |-> <<>>, val |-> [k \in {} |-> None]]

\* k in d
DictHas(d, k) == k \in DOMAIN d.val

\* d[k] for a key that is present
DictGet(d, k) == d.val[k]

\* d[k] = v: a new key goes last, an existing key keeps its place.
DictSet(d, k, v) ==
    [keys |-> IF DictHas(d, k) THEN d.keys ELSE Append(d.keys, k),
     val  |-> [x \in (DOMAIN d.val) \cup {k} |-> IF x = k THEN v ELSE d.val[x]]]

\* list(d.values())
DictValues(d) == [i \in 1..Len(d.keys) |-> d.val[d.keys[i]]]

\* The elements of a sequence.
Range(s) == {s[i] : i \in DOMAIN s}

\* An os.environ in which none of the variables config.py reads is set.
NoEnviron == [v \in {} |-> ""]

-----------------------------------------------------------------------------
(* templates/registry.py: Template and TemplateRegistry *)

\* Template(name, prompt, description, aliases)
Template(name, prompt, description, aliases) ==
    [name |-> name, prompt |-> prompt, description |-> description, aliases |-> aliases]

\* Template.all_names
all_names(template) == <<template.name>> \o template.aliases

\* TemplateRegistry.__init__
TemplateRegistry == [_templates |-> DictEmpty, _alias_map |-> DictEmpty]

\* The loop of register: for alias in template.aliases: _alias_map[alias] = template.name
RECURSIVE register_aliases(_, _, _)
register_aliases(alias_map, aliases, name) ==
    IF aliases = <<>>
    THEN alias_map
    ELSE register_aliases(DictSet(alias_map, Head(aliases), name), Tail(aliases), name)

\* Variant of the loop in which an alias keeps its first owner.
RECURSIVE register_aliases_first_wins(_, _, _)
register_aliases_first_wins(alias_map, aliases, name) ==
    IF aliases = <<>>
    THEN alias_map
    ELSE register_aliases_first_wins(
             IF DictHas(alias_map, Head(aliases))
             THEN alias_map
             ELSE DictSet(alias_map, Head(aliases), name),
             Tail(aliases), name)

\* Variant of register in which an alias keeps its first owner.
register_first_wins(reg, template) ==
    [_templates |-> DictSet(reg._templates, template.name, template),
     _alias_map |-> register_aliases_first_wins(reg._alias_map, template.aliases, template.name)]

\* Variant of register that first withdraws every alias pointing at the
\* name being registered.
register_retracting(reg, template) ==
    LET stale == {a \in DOMAIN reg._alias_map.val : reg._alias_map.val[a] = template.name}
        kept  == SelectSeq(reg._alias_map.keys, LAMBDA a : a \notin stale)
        base  == [keys |-> kept, val |-> [a \in Range(kept) |-> reg._alias_map.val[a]]]
    IN  [_templates |-> DictSet(reg._templates, template.name, template),
         _alias_map |-> register_aliases(base, template.aliases, template.name)]

\* Variant of register that keeps the templates as a list would: the name
\* is entered once more at every call.
register_appending(reg, template) ==
    [_templates |-> [keys |-> Append(reg._templates.keys, template.name),
                     val  |-> DictSet(reg._templates, template.name, template).val],
     _alias_map |-> register_aliases(reg._alias_map, template.aliases, template.name)]

\* Variant of register that keeps no template but the one it is given.
register_forgetting(reg, template) ==
    [_templates |-> DictSet(DictEmpty, template.name, template),
     _alias_map |-> register_aliases(reg._alias_map, template.aliases, template.name)]

\* TemplateRegistry.register
register(reg, template) ==
    [_templates |-> DictSet(reg._templates, template.name, template),
     _alias_map |-> register_aliases(reg._alias_map, template.aliases, template.name)]

\* Variant of get that consults the alias table first.
get_alias_first(reg, name) ==
    IF DictHas(reg._alias_map, name) /\ DictHas(reg._templates, DictGet(reg._alias_map, name))
    THEN DictGet(reg._templates, DictGet(reg._alias_map, name))
    ELSE IF DictHas(reg._templates, name)
         THEN DictGet(reg._templates, name)
         ELSE None

\* TemplateRegistry.get; a subscript of a missing key raises KeyError.
get(reg, name) ==
    IF DictHas(reg._templates, name)
    THEN DictGet(reg._templates, name)
    ELSE IF DictHas(reg._alias_map, name)
         THEN IF DictHas(reg._templates, DictGet(reg._alias_map, name))
              THEN DictGet(reg._templates, DictGet(reg._alias_map, name))
              ELSE KeyError
         ELSE None

\* TemplateRegistry.list_all
list_all(reg) == DictValues(reg._templates)

-----------------------------------------------------------------------------
(* A TemplateRegistry of its own, as the tests build one: register and get  *)
(* in any order.                                                            *)

\* How many register calls a run makes.
MaxCalls == 3

TestNames == {"bw", "fix"}

TestPrompts == {"P1", "P2"}

TestAliases == {<<>>, <<"fix">>, <<"mono", "fix">>}

TestTemplates ==
    {Template(n, p, "", al) : n \in TestNames, p \in TestPrompts, al \in TestAliases}

\* The strings looked up: names, aliases, other spellings, and a stranger.
TestKeys == {"bw", "fix", "mono", "BW", "Fix", "make it blue"}

InitRegistry ==
    /\ heap = <<TemplateRegistry>>
    /\ _registry = 0
    /\ templates_file = [exists |-> FALSE]
    /\ environ = NoEnviron
    /\ config_file = [exists |-> FALSE]
    /\ pc = <<>>
    /\ frame = <<>>
    /\ log = <<(<<>>)>>
    /\ call = [op |-> "TemplateRegistry"]

\* registry.register(template)
Register(template) ==
    /\ Len(log[1]) < MaxCalls
    /\ heap' = [heap EXCEPT ![1] = register(heap[1], template)]
    /\ log' = [log EXCEPT ![1] = Append(log[1], template)]
    /\ call' = [op |-> "register", template |-> template, pre |-> heap[1]]
    /\ UNCHANGED <<_registry, templates_file, config_vars, thread_vars>>

\* registry.get(name)
Get(name) ==
    /\ call' = [op |-> "get", name |-> name, ret |-> get(heap[1], name)]
    /\ UNCHANGED <<heap, _registry, templates_file, log, config_vars, thread_vars>>

\* registry.list_all()
ListAll ==
    /\ call' = [op |-> "list_all", ret |-> list_all(heap[1])]
    /\ UNCHANGED <<heap, _registry, templates_file, log, config_vars, thread_vars>>

NextRegistry ==
    \/ \E template \in TestTemplates : Register(template)
    \/ \E name \in TestKeys : Get(name)
    \/ ListAll

SpecRegistry == InitRegistry /\ [][NextRegistry]_vars

-----------------------------------------------------------------------------
(* templates/builtin.py *)

\* Variant of the catalog in which two templates list the alias "retro".
BUILTIN_TEMPLATES_colliding ==
    <<Template("vintage", "Apply a vintage film photography effect to this image.",
               "Apply vintage/retro film effect", <<"retro", "film", "old-photo">>),
      Template("sepia", "Convert this image to sepia tone.",
               "Apply sepia tone effect", <<"brown", "retro">>)>>

BUILTIN_TEMPLATES ==
    <<
      [name |-> "remove-bg",
       prompt |-> "Remove the background from this image completely. Make the background fully transparent while preserving the main subject with clean, precise edges. Keep only the primary subject visible.",
       description |-> "Remove background, make transparent",
       aliases |-> <<"removebg", "nobg", "background-remove">>],
      [name |-> "enhance",
       prompt |-> "Enhance this image to improve overall quality. Increase clarity and sharpness, optimize lighting and exposure, reduce noise, and improve color balance. Make the image look more professional and polished.",
       description |-> "Improve quality, clarity, and lighting",
       aliases |-> <<"improve", "fix", "auto-enhance">>],
      [name |-> "upscale",
       prompt |-> "Upscale and enhance this image to a higher resolution. Increase the detail and sharpness while maintaining natural appearance. Fill in fine details intelligently and reduce any pixelation or blur.",
       description |-> "Increase resolution intelligently",
       aliases |-> <<"resize", "enlarge", "hd">>],
      [name |-> "vintage",
       prompt |-> "Apply a vintage film photography effect to this image. Add subtle film grain, slightly faded colors, warm tones, and a nostalgic aesthetic reminiscent of photos from the 1970s-80s.",
       description |-> "Apply vintage/retro film effect",
       aliases |-> <<"retro", "film", "old-photo">>],
      [name |-> "sepia",
       prompt |-> "Convert this image to sepia tone. Apply a warm brownish tint throughout, creating a classic, antique photograph appearance.",
       description |-> "Apply sepia tone effect",
       aliases |-> <<"brown", "antique">>],
      [name |-> "sharpen",
       prompt |-> "Sharpen this image to increase clarity and detail. Enhance edges and fine details while avoiding artifacts. Make the image appear crisper and more defined.",
       description |-> "Sharpen and increase clarity",
       aliases |-> <<"crisp", "clarity">>],
      [name |-> "bw",
       prompt |-> "Convert this image to black and white. Create a high-quality monochrome version with good tonal range, proper contrast, and artistic appeal.",
       description |-> "Convert to black and white",
       aliases |-> <<"blackwhite", "grayscale", "mono", "monochrome">>],
      [name |-> "blur-bg",
       prompt |-> "Apply a professional depth-of-field blur to the background. Keep the main subject in sharp focus while creating a smooth, pleasing bokeh effect on the background. Make it look like a professional portrait photo.",
       description |-> "Blur background, keep subject sharp",
       aliases |-> <<"bokeh", "portrait-mode", "depth">>],
      [name |-> "cartoon",
       prompt |-> "Transform this image into a cartoon or illustrated style. Simplify details, add bold outlines, and use vibrant, flat colors to create an animated/comic book appearance.",
       description |-> "Convert to cartoon/illustration style",
       aliases |-> <<"animate", "comic", "illustrated">>],
      [name |-> "watercolor",
       prompt |-> "Transform this image into a watercolor painting style. Add soft, flowing brush strokes, subtle color bleeding, and the characteristic translucent quality of watercolor art.",
       description |-> "Apply watercolor painting effect",
       aliases |-> <<"painting", "artistic">>]
    >>

-----------------------------------------------------------------------------
(* templates.toml and TemplateRegistry.load_user_templates *)

\* How many [[template]] records a templates.toml holds.
MaxRecords == 2

\* The records a user's file may hold.  A record has the keys its TOML table
\* has: description and aliases are optional, and a record that lacks name
\* or prompt is malformed.
UserRecords ==
    { [name |-> "enhance", prompt |-> "Make it pop", aliases |-> <<"glow">>],
      [name |-> "mine", prompt |-> "Paint it like mine", description |-> "My style",
       aliases |-> <<"fix">>],
      [name |-> "fix", prompt |-> "Repair scratches"],
      [name |-> "mine", prompt |-> "Second take", aliases |-> <<"bw", "glow">>],
      [name |-> "bw"],
      [prompt |-> "A prompt without a name", aliases |-> <<"orphan">>] }

RECURSIVE SeqsUpTo(_, _)
SeqsUpTo(S, n) ==
    IF n = 0
    THEN {<<>>}
    ELSE LET shorter == SeqsUpTo(S, n - 1)
         IN  shorter \cup {Append(q, x) : q \in shorter, x \in S}

\* The states of the file: missing; present but not TOML; a TOML document
\* without a template key; a TOML document with a list of records.
Files ==
    {[exists |-> FALSE], [exists |-> TRUE, parses |-> FALSE]}
    \cup {[exists |-> TRUE, parses |-> TRUE, data |-> [title |-> "my templates"]]}
    \cup {[exists |-> TRUE, parses |-> TRUE, data |-> [template |-> recs]] :
             recs \in SeqsUpTo(UserRecords, MaxRecords)}

\* d.get(key, default) on a TOML table
TableGet(d, key, default) == IF key \in DOMAIN d THEN d[key] ELSE default

\* The loop of load_user_templates: the templates it passes to register,
\* in order, until the records run out or one raises (a missing name or
\* prompt is a KeyError, caught by the except around the loop).
RECURSIVE user_templates(_)
user_templates(records) ==
    IF records = <<>>
    THEN <<>>
    ELSE LET tmpl_data == Head(records)
         IN  IF "name" \notin DOMAIN tmpl_data \/ "prompt" \notin DOMAIN tmpl_data
             THEN <<>>
             ELSE <<Template(tmpl_data["name"], tmpl_data["prompt"],
                             TableGet(tmpl_data, "description", ""),
                             TableGet(tmpl_data, "aliases", <<>>))>>
                  \o user_templates(Tail(records))

\* The register calls load_user_templates makes for a file.
user_register_calls(file) ==
    IF ~file.exists
    THEN <<>>
    ELSE IF ~file.parses
         THEN <<>>
         ELSE user_templates(TableGet(file.data, "template", <<>>))

\* for template in templates: reg.register(template)
RECURSIVE register_all(_, _)
register_all(reg, templates) ==
    IF templates = <<>>
    THEN reg
    ELSE register_all(register(reg, Head(templates)), Tail(templates))

\* TemplateRegistry.load_user_templates
load_user_templates(reg, file) == register_all(reg, user_register_calls(file))

-----------------------------------------------------------------------------
(* get_registry and core.resolve_prompt, one caller at a time *)

\* Variant of the body of get_registry that loads the user's templates
\* before the built-in ones.
new_registry_user_first(file) ==
    register_all(load_user_templates(TemplateRegistry, file), BUILTIN_TEMPLATES)

\* The body of get_registry's if: a new TemplateRegistry, the built-in
\* templates in list order, then the user's.
new_registry(file) ==
    load_user_templates(register_all(TemplateRegistry, BUILTIN_TEMPLATES), file)

Returned(value) == [kind |-> "return", value |-> value]

Raised(type) == [kind |-> "raise", type |-> type]

\* Variant of resolve_prompt that looks at template names only.
resolve_prompt_names_only(reg, prompt_or_template) ==
    IF DictHas(reg._templates, prompt_or_template)
    THEN Returned(DictGet(reg._templates, prompt_or_template).prompt)
    ELSE Returned(prompt_or_template)

\* core.resolve_prompt, given the registry get_registry returned
resolve_prompt(reg, prompt_or_template) ==
    LET template == get(reg, prompt_or_template)
    IN  IF template = KeyError
        THEN Raised("KeyError")
        ELSE IF template # None
             THEN Returned(template.prompt)
             ELSE Returned(prompt_or_template)

\* The strings given as prompts: names and aliases of built-in and user
\* templates, other spellings of them, and free text.
Prompts ==
    {"enhance", "fix", "bw", "mono", "mine", "glow", "orphan", "Enhance",
     "make the image blue and sparkly", "not-a-real-template"}

Init ==
    /\ heap = <<>>
    /\ _registry = 0
    /\ templates_file \in Files
    /\ environ = NoEnviron
    /\ config_file = [exists |-> FALSE]
    /\ pc = <<>>
    /\ frame = <<>>
    /\ log = <<>>
    /\ call = [op |-> "start"]

\* Variant of EnsureRegistry that builds a registry at every call.
EnsureRegistry_always ==
    /\ heap' = Append(heap, new_registry(templates_file))
    /\ log' = Append(log, BUILTIN_TEMPLATES \o user_register_calls(templates_file))
    /\ _registry' = Len(heap) + 1

\* The effect of get_registry() on the global and the instances.
EnsureRegistry ==
    IF _registry = 0
    THEN /\ heap' = Append(heap, new_registry(templates_file))
         /\ log' = Append(log, BUILTIN_TEMPLATES \o user_register_calls(templates_file))
         /\ _registry' = Len(heap) + 1
    ELSE UNCHANGED <<heap, log, _registry>>

\* get_registry()
GetRegistry ==
    /\ EnsureRegistry
    /\ call' = [op |-> "get_registry", ret |-> _registry', initialised |-> _registry = 0,
                builtins_only |-> register_all(TemplateRegistry, BUILTIN_TEMPLATES)]
    /\ UNCHANGED <<templates_file, config_vars, thread_vars>>

\* resolve_prompt(prompt)
ResolvePrompt(prompt) ==
    /\ EnsureRegistry
    /\ call' = [op |-> "resolve_prompt", prompt |-> prompt,
                result |-> resolve_prompt(heap'[_registry'], prompt)]
    /\ UNCHANGED <<templates_file, config_vars, thread_vars>>

Next ==
    \/ GetRegistry
    \/ \E prompt \in Prompts : ResolvePrompt(prompt)

Spec == Init /\ [][Next]_vars

-----------------------------------------------------------------------------
(* get_registry called from several threads.  Each thread makes one call;   *)
(* a thread switch may fall between any two of the lines of get_registry,   *)
(* and each line reads the global _registry afresh, as the code does.  The  *)
(* history variables log and call are not kept here.                        *)

\* How many threads call get_registry.
NThreads == 2

Threads == 1..NThreads

\* The files the threaded runs start from: none, and one that re-registers
\* enhance and adds mine.
ThreadFiles ==
    {[exists |-> FALSE],
     [exists |-> TRUE, parses |-> TRUE,
      data |-> [template |->
          <<[name |-> "enhance", prompt |-> "Make it pop", aliases |-> <<"glow">>],
            [name |-> "mine", prompt |-> "Paint it like mine", description |-> "My style",
             aliases |-> <<"fix">>]>>]]}

InitThreads ==
    /\ heap = <<>>
    /\ _registry = 0
    /\ templates_file \in ThreadFiles
    /\ environ = NoEnviron
    /\ config_file = [exists |-> FALSE]
    /\ pc = [t \in Threads |-> "105"]
    /\ frame = [t \in Threads |-> [i |-> 0, self |-> 0, todo |-> <<>>]]
    /\ log = <<>>
    /\ call = [op |-> "start"]

\* registry.py:105  if _registry is None:
TestNone(t) ==
    /\ pc[t] = "105"
    /\ pc' = [pc EXCEPT ![t] = IF _registry = 0 THEN "106" ELSE "117"]
    /\ UNCHANGED <<heap, _registry, templates_file, config_vars, frame, log, call>>

\* registry.py:106  _registry = TemplateRegistry()
Construct(t) ==
    /\ pc[t] = "106"
    /\ heap' = Append(heap, TemplateRegistry)
    /\ _registry' = Len(heap) + 1
    /\ frame' = [frame EXCEPT ![t].i = 1]
    /\ pc' = [pc EXCEPT ![t] = "111"]
    /\ UNCHANGED <<templates_file, config_vars, log, call>>

\* registry.py:111-112  for template in BUILTIN_TEMPLATES: _registry.register(template)
RegisterBuiltin(t) ==
    /\ pc[t] = "111"
    /\ heap' = [heap EXCEPT ![_registry] = register(@, BUILTIN_TEMPLATES[frame[t].i])]
    /\ frame' = [frame EXCEPT ![t].i = @ + 1]
    /\ pc' = [pc EXCEPT ![t] = IF frame[t].i = Len(BUILTIN_TEMPLATES) THEN "115" ELSE "111"]
    /\ UNCHANGED <<_registry, templates_file, config_vars, log, call>>

\* registry.py:115  _registry.load_user_templates(): the call binds self to
\* the instance _registry names now; lines 75-91 up to the first register.
CallLoad(t) ==
    /\ pc[t] = "115"
    /\ frame' = [frame EXCEPT ![t].self = _registry,
                              ![t].todo = user_register_calls(templates_file)]
    /\ pc' = [pc EXCEPT ![t] =
                 IF user_register_calls(templates_file) = <<>> THEN "117" ELSE "92"]
    /\ UNCHANGED <<heap, _registry, templates_file, config_vars, log, call>>

\* registry.py:92  self.register(template), once per record
RegisterUser(t) ==
    /\ pc[t] = "92"
    /\ heap' = [heap EXCEPT ![frame[t].self] = register(@, Head(frame[t].todo))]
    /\ frame' = [frame EXCEPT ![t].todo = Tail(@)]
    /\ pc' = [pc EXCEPT ![t] = IF Tail(frame[t].todo) = <<>> THEN "117" ELSE "92"]
    /\ UNCHANGED <<_registry, templates_file, config_vars, log, call>>

\* registry.py:117  return _registry; the frame keeps the instance returned
\* and what it held at that moment.
Return(t) ==
    /\ pc[t] = "117"
    /\ frame' = [frame EXCEPT ![t] = [ret |-> _registry, held |-> heap[_registry]]]
    /\ pc' = [pc EXCEPT ![t] = "returned"]
    /\ UNCHANGED <<heap, _registry, templates_file, config_vars, log, call>>

NextThreads ==
    \E t \in Threads :
        \/ TestNone(t)
        \/ Construct(t)
        \/ RegisterBuiltin(t)
        \/ CallLoad(t)
        \/ RegisterUser(t)
        \/ Return(t)

SpecThreads == InitThreads /\ [][NextThreads]_vars

-----------------------------------------------------------------------------
(* config.py: the read side *)

\* An Optional[str] that is a string.
Str(s) == [str |-> s]

\* config.py:36  DEFAULTS
DEFAULTS ==
    [k \in {"model", "default-format", "default-quality"} |->
        CASE k = "model" -> "gemini-3-pro-image-preview"
          [] k = "default-format" -> "png"
          [] k = "default-quality" -> "1K"]

\* config.py:76  env_map
env_map ==
    [k \in {"api-key", "model", "default-format", "default-quality"} |->
        CASE k = "api-key" -> "GEMINI_API_KEY"
          [] k = "model" -> "GEMINI_MODEL"
          [] k = "default-format" -> "IMAGE_EDIT_DEFAULT_FORMAT"
          [] k = "default-quality" -> "IMAGE_EDIT_DEFAULT_QUALITY"]

\* The values of a TOML table: strings, integers and booleans.
TomlStr(s) == [s |-> s]

TomlInt(i) == [i |-> i]

TomlBool(b) == [b |-> b]

\* str(value) of a TOML value: the string itself, the digits of the
\* integer, "True" or "False".
str_of(value) ==
    IF "s" \in DOMAIN value THEN value.s
    ELSE IF "i" \in DOMAIN value THEN ToString(value.i)
    ELSE IF value.b THEN "True" ELSE "False"

\* config._load_config_file: the table of the file, {} when it is missing
\* or does not parse.  (get_config_dir makes the directory of the file when
\* it is missing; the directory is no part of the state here.)
_load_config_file(file) ==
    IF file.exists /\ file.parses THEN file.data ELSE [k \in {} |-> TomlStr("")]

\* Variant of get_config_value that looks in the file first.
get_config_value_file_first(env, file, key) ==
    IF key \in DOMAIN _load_config_file(file)
    THEN Str(str_of(_load_config_file(file)[key]))
    ELSE IF /\ key \in DOMAIN env_map
            /\ env_map[key] \in DOMAIN env
            /\ env[env_map[key]] # ""
         THEN Str(env[env_map[key]])
         ELSE IF key \in DOMAIN DEFAULTS THEN Str(DEFAULTS[key]) ELSE None

\* config.get_config_value: the environment variable of the key (when the
\* key has one and it is set and not empty), then the file's value as a
\* str, then the default, else None.
get_config_value(env, file, key) ==
    IF /\ key \in DOMAIN env_map
       /\ env_map[key] \in DOMAIN env
       /\ env[env_map[key]] # ""
    THEN Str(env[env_map[key]])
    ELSE IF key \in DOMAIN _load_config_file(file)
         THEN Str(str_of(_load_config_file(file)[key]))
         ELSE IF key \in DOMAIN DEFAULTS THEN Str(DEFAULTS[key]) ELSE None

\* Settings.gemini_api_key
gemini_api_key(env, file) == get_config_value(env, file, "api-key")

\* Settings.gemini_model: get_config_value("model") or DEFAULTS["model"]
gemini_model(env, file) ==
    LET v == get_config_value(env, file, "model")
    IN  IF v = None \/ v = Str("") THEN DEFAULTS["model"] ELSE v.str

-----------------------------------------------------------------------------
(* utils/image.py *)

\* ImageFormat members
ImageFormat_PNG == [value |-> "png"]

ImageFormat_JPEG == [value |-> "jpeg"]

ImageFormat_WEBP == [value |-> "webp"]

ImageFormat_GIF == [value |-> "gif"]

\* ImageFormat.mime_type: "image/" + value
mime_type_of(fmt) ==
    CASE fmt = ImageFormat_PNG -> "image/png"
      [] fmt = ImageFormat_JPEG -> "image/jpeg"
      [] fmt = ImageFormat_WEBP -> "image/webp"
      [] fmt = ImageFormat_GIF -> "image/gif"

\* The magic numbers of detect_format, as bytes.
PNG_MAGIC == <<137, 80, 78, 71, 13, 10, 26, 10>>

JPEG_MAGIC == <<255, 216, 255>>

RIFF_MAGIC == <<82, 73, 70, 70>>

WEBP_MAGIC == <<87, 69, 66, 80>>

GIF87a_MAGIC == <<71, 73, 70, 56, 55, 97>>

GIF89a_MAGIC == <<71, 73, 70, 56, 57, 97>>

\* data[a:b], a Python slice: cut to the length of data.
Slice(data, a, b) ==
    LET hi == IF b < Len(data) THEN b ELSE Len(data)
    IN  IF a >= hi THEN <<>> ELSE SubSeq(data, a + 1, hi)

\* Variant of detect_format that goes by the MAGIC_BYTES table alone.
detect_format_by_magic(data) ==
    IF Slice(data, 0, 8) = PNG_MAGIC THEN ImageFormat_PNG
    ELSE IF Slice(data, 0, 3) = JPEG_MAGIC THEN ImageFormat_JPEG
    ELSE IF Slice(data, 0, 4) = RIFF_MAGIC THEN ImageFormat_WEBP
    ELSE IF Slice(data, 0, 6) \in {GIF87a_MAGIC, GIF89a_MAGIC} THEN ImageFormat_GIF
    ELSE None

\* utils.image.detect_format
detect_format(data) ==
    IF Len(data) < 4 THEN None
    ELSE IF Slice(data, 0, 8) = PNG_MAGIC THEN ImageFormat_PNG
    ELSE IF Slice(data, 0, 3) = JPEG_MAGIC THEN ImageFormat_JPEG
    ELSE IF Slice(data, 0, 4) = RIFF_MAGIC /\ Len(data) >= 12 /\ Slice(data, 8, 12) = WEBP_MAGIC
         THEN ImageFormat_WEBP
    ELSE IF Slice(data, 0, 6) \in {GIF87a_MAGIC, GIF89a_MAGIC} THEN ImageFormat_GIF
    ELSE None

-----------------------------------------------------------------------------
(* providers/gemini.py.  An operation of the provider is given, as          *)
(* response, what the genai library and the remote service would do, and    *)
(* yields its result together with the requests it sent.  A part of an      *)
(* answer has inline_data (None or a record) and text ("" when the part     *)
(* has none: the code tests `if p.text`).                                   *)

\* raise type(message), with the exception it was raised from
RaisedFrom(type, message, cause) ==
    [kind |-> "raise", type |-> type, message |-> message, cause |-> cause]

\* EditResult(image_data, mime_type, provider, model)
EditResult(image_data, mime_type, provider, model) ==
    [image_data |-> image_data, mime_type |-> mime_type, provider |-> provider, model |-> model]

\* GeminiProvider.name
provider_name_of == "gemini"

\* Outcome of a provider operation.
Outcome(result, requests) == [result |-> result, requests |-> requests]

\* Variant of _get_client that makes the client whatever the key is.
_get_client_unchecked(env, file, response) ==
    IF "client_raises" \in DOMAIN response
    THEN RaisedFrom(response.client_raises, <<"client failure">>, None)
    ELSE Returned(gemini_api_key(env, file))

\* GeminiProvider._get_client: a ProviderError when no key is configured
\* (None or empty); else genai.Client(api_key=...), which gives the client
\* or raises what the library raises (response.client_raises, when the
\* behaviour of the library given by response has it).
_get_client(env, file, response) ==
    IF gemini_api_key(env, file) = None \/ gemini_api_key(env, file) = Str("")
    THEN RaisedFrom("ProviderError", <<"Gemini API key not configured.">>, None)
    ELSE IF "client_raises" \in DOMAIN response
         THEN RaisedFrom(response.client_raises, <<"client failure">>, None)
         ELSE Returned(gemini_api_key(env, file).str)

\* The first part of parts that carries inline_data, as a sequence of at
\* most one element.
RECURSIVE first_image(_)
first_image(parts) ==
    IF parts = <<>> THEN <<>>
    ELSE IF Head(parts).inline_data # None THEN <<Head(parts)>>
    ELSE first_image(Tail(parts))

\* [p.text for p in parts if p.text]
RECURSIVE text_parts_of(_)
text_parts_of(parts) ==
    IF parts = <<>> THEN <<>>
    ELSE (IF Head(parts).text # "" THEN <<Head(parts).text>> ELSE <<>>)
         \o text_parts_of(Tail(parts))

\* except Exception as e: a ProviderError passes, anything else is wrapped.
wrap(result) ==
    IF result.kind = "raise" /\ result.type # "ProviderError"
    THEN RaisedFrom("ProviderError", <<"Gemini API error:", result.message>>, result.type)
    ELSE result

\* generate_content(...) and response.candidates[0].content.parts: the
\* parts, or the exception the transport or the subscript raises.
response_parts(response) ==
    IF "raises" \in DOMAIN response
    THEN RaisedFrom(response.raises, <<"transport failure">>, None)
    ELSE IF response.candidates = <<>>
         THEN RaisedFrom("IndexError", <<"list index out of range">>, None)
         ELSE Returned(response.candidates[1])

\* gemini.py:94-113 and 197-216: the body of the try of edit and combine
\* after the request.
extract_image_or_text(env, file, response) ==
    LET parts == response_parts(response)
    IN  IF parts.kind = "raise" THEN parts
        ELSE IF first_image(parts.value) # <<>>
             THEN Returned(EditResult(first_image(parts.value)[1].inline_data.data,
                                      first_image(parts.value)[1].inline_data.mime_type,
                                      provider_name_of, gemini_model(env, file)))
        ELSE IF text_parts_of(parts.value) # <<>>
             THEN RaisedFrom("ProviderError",
                             <<"Gemini returned text instead of image:">>
                                 \o text_parts_of(parts.value), None)
        ELSE RaisedFrom("ProviderError", <<"Gemini response contained no image data">>, None)

\* gemini.py:144-154: the body of the try of generate after the request.
extract_image(env, file, response) ==
    LET parts == response_parts(response)
    IN  IF parts.kind = "raise" THEN parts
        ELSE IF first_image(parts.value) # <<>>
             THEN Returned(EditResult(first_image(parts.value)[1].inline_data.data,
                                      first_image(parts.value)[1].inline_data.mime_type,
                                      provider_name_of, gemini_model(env, file)))
        ELSE RaisedFrom("ProviderError", <<"Gemini response contained no image data">>, None)

\* Variant of mime_for that ignores the hint.
mime_for_detect_only(image_data, mime_type) ==
    IF detect_format(image_data) # None
    THEN mime_type_of(detect_format(image_data))
    ELSE "image/png"

\* The MIME type sent for an image: the hint, else the detected format's,
\* else image/png.
mime_for(image_data, mime_type) ==
    IF mime_type = None
    THEN IF detect_format(image_data) # None
         THEN mime_type_of(detect_format(image_data))
         ELSE "image/png"
    ELSE mime_type.str

\* types.Part.from_bytes(data, mime_type) and types.Part.from_text(text)
PartBytes(data, mime_type) == [data |-> data, mime_type |-> mime_type]

PartText(text) == [text |-> text]

\* Variant of edit that sends the request again when the first try failed.
edit_retrying(env, file, image_data, prompt, mime_type, response) ==
    IF _get_client(env, file, response).kind = "raise"
    THEN Outcome(_get_client(env, file, response), <<>>)
    ELSE LET request == [model |-> gemini_model(env, file),
                         parts |-> <<PartBytes(image_data, mime_for(image_data, mime_type)),
                                     PartText(prompt)>>]
             result == wrap(extract_image_or_text(env, file, response))
         IN  Outcome(result,
                     IF result.kind = "raise" THEN <<request, request>> ELSE <<request>>)

\* GeminiProvider.edit
edit(env, file, image_data, prompt, mime_type, response) ==
    IF _get_client(env, file, response).kind = "raise"
    THEN Outcome(_get_client(env, file, response), <<>>)
    ELSE Outcome(wrap(extract_image_or_text(env, file, response)),
                 <<[model |-> gemini_model(env, file),
                    parts |-> <<PartBytes(image_data, mime_for(image_data, mime_type)),
                                PartText(prompt)>>]>>)

\* GeminiProvider.generate
generate(env, file, prompt, response) ==
    IF _get_client(env, file, response).kind = "raise"
    THEN Outcome(_get_client(env, file, response), <<>>)
    ELSE Outcome(wrap(extract_image(env, file, response)),
                 <<[model |-> gemini_model(env, file), contents |-> prompt]>>)

\* gemini.py:179-186: the parts of a combine request.
image_parts(images) ==
    [i \in 1..Len(images) |-> PartBytes(images[i][1], mime_for(images[i][1], images[i][2]))]

\* GeminiProvider.combine
combine(env, file, images, prompt, response) ==
    IF _get_client(env, file, response).kind = "raise"
    THEN Outcome(_get_client(env, file, response), <<>>)
    ELSE Outcome(wrap(extract_image_or_text(env, file, response)),
                 <<[model |-> gemini_model(env, file),
                    parts |-> Append(image_parts(images), PartText(prompt))]>>)

-----------------------------------------------------------------------------
(* core.py: get_provider, edit_image, generate_image, combine_images.  The  *)
(* record an operation yields names its result, the providers it            *)
(* constructed, the provider operations it invoked with their arguments,    *)
(* and the remote requests that were sent.                                  *)

\* Variant of get_provider that gives the Gemini provider for any name.
get_provider_lenient(name) == Returned(provider_name_of)

\* core.get_provider: the providers table has the one key "gemini".
get_provider(name) ==
    IF name # "gemini"
    THEN RaisedFrom("ValueError", <<"Unknown provider", name, "Available:", "gemini">>, None)
    ELSE Returned(provider_name_of)

Done(result, constructed, invoked, requests) ==
    [result |-> result, constructed |-> constructed, invoked |-> invoked,
     requests |-> requests]

\* Variant of edit_image that hands the provider the prompt as it came.
edit_image_literal(env, file, reg, image_data, prompt, provider_name, mime_type, response) ==
    IF get_provider(provider_name).kind = "raise"
    THEN Done(get_provider(provider_name), <<>>, <<>>, <<>>)
    ELSE LET out == edit(env, file, image_data, prompt, mime_type, response)
         IN  Done(out.result, <<provider_name_of>>,
                  <<[method |-> "edit", image_data |-> image_data,
                     prompt |-> prompt, mime_type |-> mime_type]>>,
                  out.requests)

\* core.edit_image, given the registry get_registry returns
edit_image(env, file, reg, image_data, prompt, provider_name, mime_type, response) ==
    IF get_provider(provider_name).kind = "raise"
    THEN Done(get_provider(provider_name), <<>>, <<>>, <<>>)
    ELSE IF resolve_prompt(reg, prompt).kind = "raise"
         THEN Done(resolve_prompt(reg, prompt), <<provider_name_of>>, <<>>, <<>>)
         ELSE LET resolved_prompt == resolve_prompt(reg, prompt).value
                  out == edit(env, file, image_data, resolved_prompt, mime_type, response)
              IN  Done(out.result, <<provider_name_of>>,
                       <<[method |-> "edit", image_data |-> image_data,
                          prompt |-> resolved_prompt, mime_type |-> mime_type]>>,
                       out.requests)

\* Variant of generate_image that resolves the prompt as edit_image does.
generate_image_resolving(env, file, reg, prompt, provider_name, response) ==
    IF get_provider(provider_name).kind = "raise"
    THEN Done(get_provider(provider_name), <<>>, <<>>, <<>>)
    ELSE LET resolved_prompt == resolve_prompt(reg, prompt).value
             out == generate(env, file, resolved_prompt, response)
         IN  Done(out.result, <<provider_name_of>>,
                  <<[method |-> "generate", prompt |-> resolved_prompt]>>, out.requests)

\* core.generate_image; reg is the registry a resolve_prompt would see
\* (generate_image does not read it).
generate_image(env, file, reg, prompt, provider_name, response) ==
    IF get_provider(provider_name).kind = "raise"
    THEN Done(get_provider(provider_name), <<>>, <<>>, <<>>)
    ELSE LET out == generate(env, file, prompt, response)
         IN  Done(out.result, <<provider_name_of>>,
                  <<[method |-> "generate", prompt |-> prompt]>>, out.requests)

\* Variant of combine_images without the check of the number of images.
combine_images_unchecked(env, file, reg, images, prompt, provider_name, response) ==
    IF get_provider(provider_name).kind = "raise"
    THEN Done(get_provider(provider_name), <<>>, <<>>, <<>>)
    ELSE LET out == combine(env, file, images, prompt, response)
         IN  Done(out.result, <<provider_name_of>>,
                  <<[method |-> "combine", images |-> images, prompt |-> prompt]>>,
                  out.requests)

\* Variant of combine_images that resolves the prompt as edit_image does.
combine_images_resolving(env, file, reg, images, prompt, provider_name, response) ==
    IF Len(images) < 2
    THEN Done(RaisedFrom("ValueError",
                         <<"At least 2 images are required for combine operation">>, None),
              <<>>, <<>>, <<>>)
    ELSE IF get_provider(provider_name).kind = "raise"
         THEN Done(get_provider(provider_name), <<>>, <<>>, <<>>)
         ELSE LET resolved_prompt == resolve_prompt(reg, prompt).value
                  out == combine(env, file, images, resolved_prompt, response)
              IN  Done(out.result, <<provider_name_of>>,
                       <<[method |-> "combine", images |-> images,
                          prompt |-> resolved_prompt]>>,
                       out.requests)

\* core.combine_images; reg is the registry a resolve_prompt would see
\* (combine_images does not read it).
combine_images(env, file, reg, images, prompt, provider_name, response) ==
    IF Len(images) < 2
    THEN Done(RaisedFrom("ValueError",
                         <<"At least 2 images are required for combine operation">>, None),
              <<>>, <<>>, <<>>)
    ELSE IF get_provider(provider_name).kind = "raise"
         THEN Done(get_provider(provider_name), <<>>, <<>>, <<>>)
         ELSE LET out == combine(env, file, images, prompt, response)
              IN  Done(out.result, <<provider_name_of>>,
                       <<[method |-> "combine", images |-> images, prompt |-> prompt]>>,
                       out.requests)

-----------------------------------------------------------------------------
(* One run of the orchestrator: the registry may already have been built    *)
(* by an earlier get_registry; then one of edit_image, generate_image and   *)
(* combine_images runs to its end.  Nothing but the registry outlives an    *)
(* operation (the provider is constructed anew by each), so one operation   *)
(* per run loses no state.                                                  *)

\* How many images a combine call is given.
MaxImages == 3

\* Byte strings given as images: a PNG, a JPEG, the bare JPEG magic (too
\* short to detect), a WebP, and a RIFF header that stops before "WEBP".
SamplePNG == PNG_MAGIC \o <<0>>

SampleJPEG == JPEG_MAGIC \o <<224>>

SampleShortJPEG == JPEG_MAGIC

SampleWEBP == RIFF_MAGIC \o <<0, 0, 0, 0>> \o WEBP_MAGIC

SampleRIFF == RIFF_MAGIC \o <<0, 0, 0, 0>>

\* (image_data, mime_type) pairs, with and without a MIME hint.
ImageItems ==
    {<<SamplePNG, Str("image/gif")>>, <<SampleJPEG, None>>, <<SampleShortJPEG, None>>,
     <<SampleWEBP, None>>}

EditItems == ImageItems \cup {<<SampleRIFF, None>>, <<SamplePNG, None>>}

OrchPrompts == {"enhance", "fix", "make the image blue and sparkly"}

ProviderNames == {"gemini", "unknown", "Gemini"}

ImagePart == [inline_data |-> [data |-> <<1, 2, 3>>, mime_type |-> "image/png"], text |-> ""]

OtherImagePart == [inline_data |-> [data |-> <<4, 5>>, mime_type |-> "image/webp"], text |-> ""]

TextPart == [inline_data |-> None, text |-> "I cannot edit this image."]

OtherTextPart == [inline_data |-> None, text |-> "Please rephrase."]

EmptyPart == [inline_data |-> None, text |-> ""]

\* How the library and the remote service may behave: the client cannot be
\* made, the request fails in transport, the answer has no candidate, or
\* it has one candidate with these parts.
Responses ==
    {[client_raises |-> "ImportError"], [raises |-> "ConnectionError"], [candidates |-> <<>>]}
    \cup {[candidates |-> <<parts>>] :
             parts \in {<<ImagePart>>, <<TextPart, ImagePart, OtherImagePart>>,
                        <<TextPart, OtherTextPart>>, <<EmptyPart>>, <<>>}}

\* The environments and config files of a run.
Environs ==
    {NoEnviron, [v \in {"GEMINI_API_KEY"} |-> "env-key"], [v \in {"GEMINI_API_KEY"} |-> ""]}

ConfigFiles ==
    {[exists |-> FALSE],
     [exists |-> TRUE, parses |-> TRUE, data |-> [k \in {"api-key"} |-> TomlStr("")]],
     [exists |-> TRUE, parses |-> TRUE,
      data |-> [k \in {"api-key", "model"} |->
                   IF k = "api-key" THEN TomlStr("file-key")
                   ELSE TomlStr("gemini-2.0-flash-exp")]]}

InitOrch ==
    /\ heap = <<>>
    /\ _registry = 0
    /\ templates_file \in ThreadFiles
    /\ environ \in Environs
    /\ config_file \in ConfigFiles
    /\ pc = <<>>
    /\ frame = <<>>
    /\ log = <<>>
    /\ call = [op |-> "start"]

\* No operation of the run has been made yet.
NoOperationYet == call.op \in {"start", "get_registry"}

\* The registry a get_registry() made now would return.
registry_seen == IF _registry = 0 THEN new_registry(templates_file) ELSE heap[_registry]

\* edit_image(image_data, prompt, provider_name, mime_type); response is
\* the remote answer, should a request be sent.
EditImage(image_data, prompt, provider_name, mime_type, response) ==
    /\ IF get_provider(provider_name).kind = "raise"
       THEN UNCHANGED <<heap, log, _registry>>
       ELSE EnsureRegistry
    /\ call' = [op |-> "edit_image", image_data |-> image_data, prompt |-> prompt,
                provider_name |-> provider_name, mime_type |-> mime_type,
                response |-> response,
                done |-> edit_image(environ, config_file, registry_seen, image_data,
                                    prompt, provider_name, mime_type, response)]
    /\ UNCHANGED <<templates_file, config_vars, thread_vars>>

\* generate_image(prompt, provider_name)
GenerateImage(prompt, provider_name, response) ==
    /\ call' = [op |-> "generate_image", prompt |-> prompt,
                provider_name |-> provider_name, response |-> response,
                done |-> generate_image(environ, config_file, registry_seen, prompt,
                                        provider_name, response)]
    /\ UNCHANGED <<heap, log, _registry, templates_file, config_vars, thread_vars>>

\* combine_images(images, prompt, provider_name)
CombineImages(images, prompt, provider_name, response) ==
    /\ call' = [op |-> "combine_images", images |-> images, prompt |-> prompt,
                provider_name |-> provider_name, response |-> response,
                done |-> combine_images(environ, config_file, registry_seen, images,
                                        prompt, provider_name, response)]
    /\ UNCHANGED <<heap, log, _registry, templates_file, config_vars, thread_vars>>

\* get_registry() ahead of the operation
EarlierGetRegistry == call.op = "start" /\ GetRegistry

\* Each operation with every argument it may be given.
AnyEditImage ==
    /\ NoOperationYet
    /\ \E item \in EditItems, prompt \in OrchPrompts, provider_name \in ProviderNames,
          response \in Responses :
          EditImage(item[1], prompt, provider_name, item[2], response)

AnyGenerateImage ==
    /\ NoOperationYet
    /\ \E prompt \in OrchPrompts, provider_name \in ProviderNames, response \in Responses :
          GenerateImage(prompt, provider_name, response)

AnyCombineImages ==
    /\ NoOperationYet
    /\ \E images \in SeqsUpTo(ImageItems, MaxImages), prompt \in OrchPrompts,
          provider_name \in ProviderNames, response \in Responses :
          CombineImages(images, prompt, provider_name, response)

NextOrch ==
    \/ EarlierGetRegistry
    \/ AnyEditImage
    \/ AnyGenerateImage
    \/ AnyCombineImages

SpecOrch == InitOrch /\ [][NextOrch]_vars

-----------------------------------------------------------------------------
(* utils/image.py: format_from_extension and ImageFormat.extension.  A str  *)
(* is the sequence of its characters here, so that lower() and lstrip(".")  *)
(* are computed and not assumed.                                            *)

\* The ASCII letters str.lower() maps, and what it maps them to.
ascii_uppercase ==
    <<"A", "B", "C", "D", "E", "F", "G", "H", "I", "J", "K", "L", "M",
      "N", "O", "P", "Q", "R", "S", "T", "U", "V", "W", "X", "Y", "Z">>

ascii_lowercase ==
    <<"a", "b", "c", "d", "e", "f", "g", "h", "i", "j", "k", "l", "m",
      "n", "o", "p", "q", "r", "s", "t", "u", "v", "w", "x", "y", "z">>

\* str.lower()
lower(s) ==
    [i \in 1..Len(s) |->
        IF \E k \in 1..26 : ascii_uppercase[k] = s[i]
        THEN ascii_lowercase[CHOOSE k \in 1..26 : ascii_uppercase[k] = s[i]]
        ELSE s[i]]

\* str.upper(), for the inputs
upper(s) ==
    [i \in 1..Len(s) |->
        IF \E k \in 1..26 : ascii_lowercase[k] = s[i]
        THEN ascii_uppercase[CHOOSE k \in 1..26 : ascii_lowercase[k] = s[i]]
        ELSE s[i]]

\* str.lstrip(chars) for one character: every leading one is removed.
RECURSIVE lstrip(_, _)
lstrip(s, ch) ==
    IF s # <<>> /\ Head(s) = ch THEN lstrip(Tail(s), ch) ELSE s

\* The characters of the value of an ImageFormat.
value_chars(fmt) ==
    CASE fmt = ImageFormat_PNG -> <<"p", "n", "g">>
      [] fmt = ImageFormat_JPEG -> <<"j", "p", "e", "g">>
      [] fmt = ImageFormat_WEBP -> <<"w", "e", "b", "p">>
      [] fmt = ImageFormat_GIF -> <<"g", "i", "f">>

\* ImageFormat.extension
extension(fmt) ==
    IF fmt = ImageFormat_JPEG THEN <<".", "j", "p", "g">> ELSE <<".">> \o value_chars(fmt)

\* Variant of format_from_extension that removes one leading dot.
format_from_extension_one_dot(ext) ==
    LET l == lower(ext)
        e == IF l # <<>> /\ Head(l) = "." THEN Tail(l) ELSE l
    IN  CASE e = <<"p", "n", "g">> -> ImageFormat_PNG
          [] e = <<"j", "p", "g">> -> ImageFormat_JPEG
          [] e = <<"j", "p", "e", "g">> -> ImageFormat_JPEG
          [] e = <<"w", "e", "b", "p">> -> ImageFormat_WEBP
          [] e = <<"g", "i", "f">> -> ImageFormat_GIF
          [] OTHER -> None

\* utils.image.format_from_extension: mapping.get(ext.lower().lstrip("."))
format_from_extension(ext) ==
    LET e == lstrip(lower(ext), ".")
    IN  CASE e = <<"p", "n", "g">> -> ImageFormat_PNG
          [] e = <<"j", "p", "g">> -> ImageFormat_JPEG
          [] e = <<"j", "p", "e", "g">> -> ImageFormat_JPEG
          [] e = <<"w", "e", "b", "p">> -> ImageFormat_WEBP
          [] e = <<"g", "i", "f">> -> ImageFormat_GIF
          [] OTHER -> None

-----------------------------------------------------------------------------
(* The functions of utils/image.py, each called on every input.             *)

\* How many zero bytes follow a header (the tests append a hundred).
MaxPad == 2

\* How long an extension drawn from ExtAlphabet is.
MaxExtLen == 4

\* n zero bytes
Zeros(n) == [i \in 1..n |-> 0]

\* The headers of the tests of detect_format, a RIFF file that is no WebP
\* ("WAVE" at offset 8) and a GIF of no known version ("GIF88a").
DetectHeaders ==
    {PNG_MAGIC, JPEG_MAGIC \o <<224>>, GIF87a_MAGIC, GIF89a_MAGIC,
     RIFF_MAGIC \o Zeros(4) \o WEBP_MAGIC,
     RIFF_MAGIC \o Zeros(4) \o <<87, 65, 86, 69>>,
     <<71, 73, 70, 56, 56, 97>>,
     Zeros(4)}

Padded == {h \o Zeros(n) : h \in DetectHeaders, n \in 0..MaxPad}

\* s with one byte replaced
Altered(s) == {[s EXCEPT ![i] = b] : i \in DOMAIN s, b \in {0, 80, 255}}

Prefixes(s) == {SubSeq(s, 1, n) : n \in 0..Len(s)}

\* The byte strings detect_format is called on: the padded headers, those
\* with one byte replaced, and every prefix of either.
DetectInputs ==
    UNION {Prefixes(s) : s \in Padded \cup UNION {Altered(p) : p \in Padded}}

ExtAlphabet == {".", "p", "n", "g", "P", "G"}

\* The extensions of the tests, and "jpe".
ExtWords ==
    {<<"p", "n", "g">>, <<"j", "p", "g">>, <<"j", "p", "e", "g">>, <<"w", "e", "b", "p">>,
     <<"g", "i", "f">>, <<"b", "m", "p">>, <<"t", "i", "f", "f">>, <<"j", "p", "e">>}

\* s with its first character in upper case
capitalize(s) == upper(SubSeq(s, 1, 1)) \o SubSeq(s, 2, Len(s))

\* The strings format_from_extension is called on: the words in lower,
\* upper and mixed case, bare, after one dot and two and before a dot, and
\* every string of up to MaxExtLen characters of ExtAlphabet.
ExtInputs ==
    LET cased == UNION {{w, upper(w), capitalize(w)} : w \in ExtWords}
    IN  cased
        \cup {<<".">> \o w : w \in cased}
        \cup {<<".", ".">> \o w : w \in cased}
        \cup {w \o <<".">> : w \in cased}
        \cup SeqsUpTo(ExtAlphabet, MaxExtLen)

InitImage ==
    /\ heap = <<>>
    /\ _registry = 0
    /\ templates_file = [exists |-> FALSE]
    /\ environ = NoEnviron
    /\ config_file = [exists |-> FALSE]
    /\ pc = <<>>
    /\ frame = <<>>
    /\ log = <<>>
    /\ call = [op |-> "start"]

\* detect_format(data)
DetectFormat(data) ==
    /\ call' = [op |-> "detect_format", data |-> data, ret |-> detect_format(data)]
    /\ UNCHANGED <<heap, _registry, templates_file, config_vars, thread_vars, log>>

\* format_from_extension(ext)
FormatFromExtension(ext) ==
    /\ call' = [op |-> "format_from_extension", ext |-> ext,
                ret |-> format_from_extension(ext)]
    /\ UNCHANGED <<heap, _registry, templates_file, config_vars, thread_vars, log>>

\* A run makes one call: the functions keep nothing from call to call.
AnyDetectFormat ==
    /\ call.op = "start"
    /\ \E data \in DetectInputs : DetectFormat(data)

AnyFormatFromExtension ==
    /\ call.op = "start"
    /\ \E ext \in ExtInputs : FormatFromExtension(ext)

NextImage ==
    \/ AnyDetectFormat
    \/ AnyFormatFromExtension

SpecImage == InitImage /\ [][NextImage]_vars

-----------------------------------------------------------------------------
(* config.py: the write side.  The config file is kept as the table that   *)
(* tomllib reads from it; tomli_w writes the strings, integers and booleans *)
(* of a table as TOML that reads back to them.                              *)

\* config.py:28  CONFIG_KEYS
CONFIG_KEYS == {"api-key", "model", "default-format", "default-quality"}

\* config._save_config_file: the file is opened for writing, which makes or
\* empties it, and the table is dumped into it.
_save_config_file(config) == [exists |-> TRUE, parses |-> TRUE, data |-> config]

\* config[key] = value on a loaded table.
config_with(config, key, value) ==
    [k \in DOMAIN config \cup {key} |-> IF k = key THEN value ELSE config[k]]

\* Variant of set_config_value that starts from an empty table.
set_config_value_fresh(file, key, value) ==
    IF key \notin CONFIG_KEYS
    THEN [ret |-> RaisedFrom("ValueError",
                             <<"Unknown configuration key '", key,
                               "'. Valid keys: api-key, model, default-format, default-quality">>,
                             None),
          file |-> file]
    ELSE [ret |-> Returned(None),
          file |-> _save_config_file(
                       config_with([k \in {} |-> TomlStr("")], key, TomlStr(value)))]

\* config.set_config_value: the outcome of the call and the file after it.
\* A key that is not in CONFIG_KEYS raises before the file is touched;
\* else the table of the file is loaded, the key is set in it and the
\* table is saved.
set_config_value(file, key, value) ==
    IF key \notin CONFIG_KEYS
    THEN [ret |-> RaisedFrom("ValueError",
                             <<"Unknown configuration key '", key,
                               "'. Valid keys: api-key, model, default-format, default-quality">>,
                             None),
          file |-> file]
    ELSE [ret |-> Returned(None),
          file |-> _save_config_file(
                       config_with(_load_config_file(file), key, TomlStr(value)))]

-----------------------------------------------------------------------------
(* config.get_config_value in every environment and with every config     *)
(* file of a small universe.                                                *)

\* How many of the variables of ConfigVars the environment sets at most.
MaxEnvVars == 2

\* The environment variables of env_map that a run may set, each to the
\* empty string or to a value.
ConfigVars == {"GEMINI_API_KEY", "GEMINI_MODEL", "IMAGE_EDIT_DEFAULT_QUALITY"}

ConfigEnvirons ==
    UNION {[vs -> {"", "from-env"}] : vs \in {S \in SUBSET ConfigVars : Cardinality(S) <= MaxEnvVars}}

\* The keys a config file may hold ("theme" is no key of CONFIG_KEYS), and
\* the values: an empty string, a string, an integer, a boolean.
FileKeys == {"api-key", "model", "theme"}

FileValues == {TomlStr(""), TomlStr("from-file"), TomlInt(5), TomlBool(TRUE)}

\* The config file: missing, not TOML, or a table.
ConfigFileStates ==
    {[exists |-> FALSE], [exists |-> TRUE, parses |-> FALSE]}
    \cup {[exists |-> TRUE, parses |-> TRUE, data |-> d] :
             d \in UNION {[ks -> FileValues] : ks \in SUBSET FileKeys}}

\* The keys asked for: those of CONFIG_KEYS and two that are none.
AskedKeys == {"api-key", "model", "default-format", "default-quality", "theme", "GEMINI_MODEL"}

InitConfig ==
    /\ heap = <<>>
    /\ _registry = 0
    /\ templates_file = [exists |-> FALSE]
    /\ environ \in ConfigEnvirons
    /\ config_file \in ConfigFileStates
    /\ pc = <<>>
    /\ frame = <<>>
    /\ log = <<>>
    /\ call = [op |-> "start"]

\* get_config_value(key)
GetConfigValue(key) ==
    /\ call' = [op |-> "get_config_value", key |-> key,
                ret |-> get_config_value(environ, config_file, key)]
    /\ UNCHANGED <<heap, _registry, templates_file, config_vars, thread_vars, log>>

\* A run makes one call: get_config_value keeps nothing from call to call.
AnyGetConfigValue ==
    /\ call.op = "start"
    /\ \E key \in AskedKeys : GetConfigValue(key)

\* The keys set_config_value is called with: those of CONFIG_KEYS and two
\* that are none, one of them a key the file may hold; and the values.
SetKeys == CONFIG_KEYS \cup {"theme", "API-KEY"}

SetValues == {"", "from-file", "new"}

\* set_config_value(key, value)
SetConfigValue(key, value) ==
    /\ config_file' = set_config_value(config_file, key, value).file
    /\ call' = [op |-> "set_config_value", key |-> key, value |-> value,
                ret |-> set_config_value(config_file, key, value).ret,
                pre |-> config_file]
    /\ UNCHANGED <<heap, _registry, templates_file, environ, thread_vars, log>>

\* A run makes one call of it.
AnySetConfigValue ==
    /\ call.op = "start"
    /\ \E key \in SetKeys, value \in SetValues : SetConfigValue(key, value)

NextConfig ==
    \/ AnyGetConfigValue
    \/ AnySetConfigValue

SpecConfig == InitConfig /\ [][NextConfig]_vars

-----------------------------------------------------------------------------
(* The process-wide registry over the life of a process: get_registry and   *)
(* resolve_prompt are called again and again, templates are registered on   *)
(* the instance get_registry returned, and the user's file is rewritten     *)
(* while the process runs.                                                  *)

\* How many register calls an instance sees after those of the built-ins:
\* the user's templates and the late ones.
MaxAdded == 4

\* The templates registered late: one under a built-in name, one new.
LateTemplates ==
    {Template("bw", "Late black and white", "", <<>>),
     Template("late", "Added late", "", <<"fix", "tardy">>)}

\* The states of the user's file: those of ThreadFiles, and one with a
\* template that no other has.
LazyFiles ==
    ThreadFiles
    \cup {[exists |-> TRUE, parses |-> TRUE,
           data |-> [template |->
               <<[name |-> "dusk", prompt |-> "Make it dusk", aliases |-> <<"fix">>]>>]]}

InitLazy ==
    /\ heap = <<>>
    /\ _registry = 0
    /\ templates_file \in LazyFiles
    /\ environ = NoEnviron
    /\ config_file = [exists |-> FALSE]
    /\ pc = <<>>
    /\ frame = <<>>
    /\ log = <<>>
    /\ call = [op |-> "start"]

\* registry.register(template) on the instance an earlier get_registry()
\* returned.
RegisterLate(template) ==
    /\ _registry # 0
    /\ Len(log[_registry]) < Len(BUILTIN_TEMPLATES) + MaxAdded
    /\ heap' = [heap EXCEPT ![_registry] = register(heap[_registry], template)]
    /\ log' = [log EXCEPT ![_registry] = Append(log[_registry], template)]
    /\ call' = [op |-> "register", template |-> template, pre |-> heap[_registry]]
    /\ UNCHANGED <<_registry, templates_file, config_vars, thread_vars>>

\* The user rewrites templates.toml.
WriteTemplatesFile(file) ==
    /\ file # templates_file
    /\ templates_file' = file
    /\ call' = [op |-> "write_templates_file", file |-> file]
    /\ UNCHANGED <<heap, _registry, log, config_vars, thread_vars>>

NextLazy ==
    \/ GetRegistry
    \/ \E prompt \in Prompts : ResolvePrompt(prompt)
    \/ \E template \in LateTemplates : RegisterLate(template)
    \/ \E file \in LazyFiles : WriteTemplatesFile(file)

SpecLazy == InitLazy /\ [][NextLazy]_vars

-----------------------------------------------------------------------------
(* Properties of TemplateRegistry, checked under SpecRegistry.  They read   *)
(* the history of register calls (log) rather than the two tables.          *)

\* The templates of a sequence that carry name s / list alias s.
Named(seq, s) == SelectSeq(seq, LAMBDA t : t.name = s)

Listing(seq, s) == SelectSeq(seq, LAMBDA t : s \in Range(t.aliases))

Last(seq) == seq[Len(seq)]

\* What a lookup of s should give after the register calls of seq: the last
\* template registered under the name s; failing that, the last template
\* registered under the name of the last template that listed s as an alias.
Lookup(seq, s) ==
    IF Named(seq, s) # <<>>
    THEN Last(Named(seq, s))
    ELSE IF Listing(seq, s) # <<>>
         THEN Last(Named(seq, Last(Listing(seq, s)).name))
         ELSE None

\* C2: get(s) consults the name table before the alias table: it returns the
\* template registered last under the name s if there is one, even when s is
\* also an alias of another template, whichever was registered last;
\* otherwise the template stored under the name that last claimed the alias
\* s; otherwise None.  Strings match exactly ("BW" is not "bw").
C2_GetNameBeforeAlias ==
    call.op = "get" => call.ret = Lookup(log[1], call.name)

\* C2 witness: "fix" is the name of a template and an alias listed by a
\* template of another name that was registered after it; get("fix")
\* returned the former, and get("Fix") has nothing to return.
C2_Witness ==
    /\ call.op = "get"
    /\ call.name = "fix"
    /\ Len(log[1]) = 2
    /\ log[1][1].name = "fix"
    /\ log[1][2].name = "bw"
    /\ "fix" \in Range(log[1][2].aliases)
    /\ call.ret = log[1][1]
    /\ get(heap[1], "Fix") = None

\* The last two register calls were register(A) then register(B), with
\* different names.
TwoRegistered ==
    /\ call.op = "register"
    /\ Len(log[1]) >= 2
    /\ log[1][Len(log[1]) - 1].name # log[1][Len(log[1])].name

RegisteredA == log[1][Len(log[1]) - 1]

RegisteredB == log[1][Len(log[1])]

SharedAliases == Range(RegisteredA.aliases) \cap Range(RegisteredB.aliases)

\* C3 as stated: after register(A) then register(B), both listing alias a
\* and of different names, get(a) returns B and get(A.name) returns A.
C3_AsStated ==
    TwoRegistered =>
        /\ \A a \in SharedAliases : get(heap[1], a) = RegisteredB
        /\ get(heap[1], RegisteredA.name) = RegisteredA

\* C3 amended: after register(A) then register(B), both listing alias a and
\* of different names, the alias table maps a to B.name and get(A.name)
\* returns A; get(a) returns B unless a is also a registered name, and then
\* it returns the template registered under the name a.
C3_AliasLastWriteWins ==
    TwoRegistered =>
        /\ \A a \in SharedAliases :
              /\ DictHas(heap[1]._alias_map, a)
              /\ DictGet(heap[1]._alias_map, a) = RegisteredB.name
              /\ get(heap[1], a) =
                    IF Named(log[1], a) # <<>> THEN Last(Named(log[1], a)) ELSE RegisteredB
        /\ get(heap[1], RegisteredA.name) = RegisteredA

\* C3 witness: A and B of different names both list "mono", which is no
\* registered name, and get("mono") is B.
C3_Witness ==
    /\ TwoRegistered
    /\ "mono" \in SharedAliases
    /\ get(heap[1], "mono") = RegisteredB
    /\ get(heap[1], "mono") # RegisteredA

\* C4: register(T) leaves every name-table entry under a name other than
\* T.name and every alias-table entry of an alias T does not list as they
\* were, and adds no entry but those of T.
C4_RegisterFrame ==
    call.op = "register" =>
        LET T    == call.template
            pre  == call.pre
            post == heap[1]
        IN  /\ \A n \in DOMAIN pre._templates.val \ {T.name} :
                  DictHas(post._templates, n) /\ DictGet(post._templates, n) = DictGet(pre._templates, n)
            /\ \A a \in DOMAIN pre._alias_map.val \ Range(T.aliases) :
                  DictHas(post._alias_map, a) /\ DictGet(post._alias_map, a) = DictGet(pre._alias_map, a)
            /\ DOMAIN post._templates.val = DOMAIN pre._templates.val \cup {T.name}
            /\ DOMAIN post._alias_map.val = DOMAIN pre._alias_map.val \cup Range(T.aliases)

\* C4 witness: a register of "bw" without aliases in a registry that holds
\* another name and aliases pointing at "bw".
C4_Witness ==
    /\ call.op = "register"
    /\ call.template.name = "bw"
    /\ call.template.aliases = <<>>
    /\ DictHas(call.pre._templates, "fix")
    /\ DictHas(call.pre._alias_map, "mono")
    /\ DictGet(call.pre._alias_map, "mono") = "bw"
    /\ DictGet(heap[1]._alias_map, "mono") = "bw"

-----------------------------------------------------------------------------
(* Properties of the process-wide registry and of resolve_prompt, checked   *)
(* under Spec.                                                              *)

\* s is the name or an alias of a template of seq.
IsRegistered(seq, s) == Named(seq, s) # <<>> \/ Listing(seq, s) # <<>>

\* C1: resolve_prompt(s) never raises; for s a registered name or alias it
\* returns the prompt of the template get(s) returns, and for any other s it
\* returns s unchanged.
C1_ResolvePrompt ==
    call.op = "resolve_prompt" =>
        LET reg == heap[_registry]
            s   == call.prompt
        IN  /\ call.result.kind = "return"
            /\ IF IsRegistered(log[_registry], s)
               THEN /\ get(reg, s) \notin {None, KeyError}
                    /\ get(reg, s) = Lookup(log[_registry], s)
                    /\ call.result.value = get(reg, s).prompt
               ELSE call.result.value = s

\* C1 witness: "fix" is an alias only (of the built-in enhance, then of the
\* user's mine); resolve_prompt("fix") returned the prompt of mine.
C1_Witness ==
    /\ call.op = "resolve_prompt"
    /\ call.prompt = "fix"
    /\ Named(log[_registry], "fix") = <<>>
    /\ Named(log[_registry], "mine") # <<>>
    /\ call.result = Returned("Paint it like mine")

BuiltinNames == {BUILTIN_TEMPLATES[i].name : i \in DOMAIN BUILTIN_TEMPLATES}

\* C5: get_registry builds the registry from empty, the built-in templates
\* in list order, then the user's.  So in the registry it returns, a
\* built-in name that a loaded user template carries gives that user
\* template (the last of them), any other built-in name gives the
\* built-in, and the built-in names are the first keys of the name table,
\* in list order.
C5_InitOrder ==
    call.op = "get_registry" =>
        LET reg  == heap[call.ret]
            user == user_register_calls(templates_file)
        IN  /\ \A i \in DOMAIN BUILTIN_TEMPLATES :
                  LET b == BUILTIN_TEMPLATES[i]
                  IN  /\ get(reg, b.name) =
                            IF Named(user, b.name) # <<>>
                            THEN Last(Named(user, b.name))
                            ELSE b
                      /\ Len(list_all(reg)) >= i
                      /\ list_all(reg)[i].name = b.name
            /\ \A j \in DOMAIN user : get(reg, user[j].name) = Last(Named(user, user[j].name))

\* C5 witness: the user's file re-registers enhance and nothing else of the
\* catalog; get("enhance") is the user's template and get("bw") the built-in.
C5_Witness ==
    /\ call.op = "get_registry"
    /\ Len(user_register_calls(templates_file)) = 2
    /\ get(heap[call.ret], "enhance").prompt = "Make it pop"
    /\ get(heap[call.ret], "bw") = BUILTIN_TEMPLATES[7]
    /\ get(heap[call.ret], "mine") # None

\* The file is missing, is not TOML, or holds a record without name or prompt.
Malformed(file) ==
    \/ ~file.exists
    \/ ~file.parses
    \/ \E i \in DOMAIN TableGet(file.data, "template", <<>>) :
          LET r == file.data.template[i]
          IN  "name" \notin DOMAIN r \/ "prompt" \notin DOMAIN r

\* C6 as stated: with a missing or malformed templates.toml,
\* load_user_templates raises nothing and leaves the name table and the
\* alias table as they were before the call (here: as the built-in
\* templates left them).
C6_AsStated ==
    (call.op = "get_registry" /\ call.initialised /\ Malformed(templates_file)) =>
        heap[call.ret] = call.builtins_only
-----------------------------------------------------------------------------
(* Properties of get_registry under concurrent callers, checked under       *)
(* SpecThreads.                                                             *)

\* C7 as stated: with concurrent callers the registry is initialised once
\* (one instance is ever built), every call returns that instance, and the
\* instance a call returns holds, at that moment, every built-in template
\* and every user override.
C7_AsStated ==
    /\ Len(heap) <= 1
    /\ \A t \in Threads :
          pc[t] = "returned" =>
              /\ frame[t].ret = 1
              /\ frame[t].held = new_registry(templates_file)
-----------------------------------------------------------------------------
(* Properties of the orchestrator, checked under SpecOrch.                  *)

\* C8: combine_images given 0 or 1 images raises ValueError (a validation
\* error, no ProviderError) with no provider constructed or invoked and no
\* remote request sent; given 2 or more images (and a known provider name)
\* it invokes the provider's combine once, with the images and the prompt
\* as given.
C8_CombineNeedsTwo ==
    call.op = "combine_images" =>
        IF Len(call.images) < 2
        THEN /\ call.done.result.kind = "raise"
             /\ call.done.result.type = "ValueError"
             /\ call.done.constructed = <<>>
             /\ call.done.invoked = <<>>
             /\ call.done.requests = <<>>
        ELSE call.provider_name = "gemini" =>
                call.done.invoked =
                    <<[method |-> "combine", images |-> call.images, prompt |-> call.prompt]>>

\* C8 witness: a combine of one image, with a configured key and a known
\* provider, ended in ValueError.
C8_Witness ==
    /\ call.op = "combine_images"
    /\ Len(call.images) = 1
    /\ call.provider_name = "gemini"
    /\ gemini_api_key(environ, config_file) # None
    /\ call.done.result.type = "ValueError"
    /\ call.done.requests = <<>>

\* The MIME type detect_format gives, image/png when it gives None.
DetectedMime(data) ==
    IF detect_format(data) = None THEN "image/png" ELSE mime_type_of(detect_format(data))

\* C9: a combine request carries one part per image, in the order given,
\* each with the image's bytes and a MIME type: the hint when the image has
\* one, else the MIME type of detect_format(bytes), image/png when that is
\* None; the prompt comes last.
C9_CombineMime ==
    (call.op = "combine_images" /\ call.done.requests # <<>>) =>
        LET parts == call.done.requests[1].parts
        IN  /\ Len(call.done.requests) = 1
            /\ Len(parts) = Len(call.images) + 1
            /\ \A i \in 1..Len(call.images) :
                  /\ parts[i].data = call.images[i][1]
                  /\ parts[i].mime_type =
                        IF call.images[i][2] # None
                        THEN call.images[i][2].str
                        ELSE DetectedMime(call.images[i][1])

\* C9 witness: a request for a hinted PNG, a JPEG without hint and the bare
\* JPEG magic without hint went out as image/gif, image/jpeg, image/png.
C9_Witness ==
    /\ call.op = "combine_images"
    /\ call.images = <<(<<SamplePNG, Str("image/gif")>>), <<SampleJPEG, None>>,
                       <<SampleShortJPEG, None>>>>
    /\ call.done.requests # <<>>
    /\ call.done.requests[1].parts[1].mime_type = "image/gif"
    /\ call.done.requests[1].parts[2].mime_type = "image/jpeg"
    /\ call.done.requests[1].parts[3].mime_type = "image/png"

C11_CombineVerbatim ==
    (call.op = "combine_images" /\ call.done.invoked # <<>>) =>
        /\ Len(call.done.invoked) = 1
        /\ call.done.invoked[1].images = call.images
        /\ call.done.invoked[1].prompt = call.prompt
        /\ \A r \in DOMAIN call.done.requests :
              LET parts == call.done.requests[r].parts
              IN  /\ Last(parts) = PartText(call.prompt)
                  /\ [i \in 1..Len(call.images) |-> parts[i].data] =
                        [i \in 1..Len(call.images) |-> call.images[i][1]]

\* C11 witness: a combine of a JPEG and a PNG, in this order, with the
\* prompt "enhance", the name of a template: the request went out with the
\* two images in this order and the text "enhance".
C11_Witness ==
    /\ call.op = "combine_images"
    /\ call.prompt = "enhance"
    /\ get(registry_seen, "enhance") \notin {None, KeyError}
    /\ resolve_prompt(registry_seen, "enhance").value # "enhance"
    /\ call.images = <<(<<SampleJPEG, None>>), <<SamplePNG, Str("image/gif")>>>>
    /\ Len(call.done.requests) = 1
    /\ call.done.requests[1].parts[1].data = SampleJPEG
    /\ call.done.requests[1].parts[2].data = SamplePNG
    /\ call.done.requests[1].parts[3] = PartText("enhance")

\* C12: edit_image hands the provider's edit the image bytes and the MIME
\* hint as it received them, and as prompt the prompt of the template that
\* a lookup of the caller's prompt gives when the caller's prompt is a
\* registered name or alias, the caller's string itself when it is not; the
\* request carries these bytes and this text.
C12_EditDelegates ==
    (call.op = "edit_image" /\ call.provider_name = "gemini") =>
        LET s == call.prompt
            expected == IF IsRegistered(log[_registry], s)
                        THEN Lookup(log[_registry], s).prompt
                        ELSE s
        IN  /\ call.done.invoked =
                  <<[method |-> "edit", image_data |-> call.image_data,
                     prompt |-> expected, mime_type |-> call.mime_type]>>
            /\ \A r \in DOMAIN call.done.requests :
                  /\ call.done.requests[r].parts[1].data = call.image_data
                  /\ call.done.requests[r].parts[2] = PartText(expected)

\* C12 witness: edit_image of a PNG with the hint image/gif and the prompt
\* "fix", an alias of the user's template mine, sent the prompt of mine;
\* the provider was given the bytes and the hint as they came.
C12_Witness ==
    /\ call.op = "edit_image"
    /\ call.prompt = "fix"
    /\ call.image_data = SamplePNG
    /\ call.mime_type = Str("image/gif")
    /\ call.done.invoked # <<>>
    /\ call.done.invoked[1].prompt = "Paint it like mine"
    /\ call.done.invoked[1].mime_type = Str("image/gif")
    /\ call.done.requests # <<>>
    /\ call.done.requests[1].parts[2] = PartText("Paint it like mine")

\* C12 witness of the other case: a prompt that is no name and no alias
\* reached the provider as it was.
C12_WitnessLiteral ==
    /\ call.op = "edit_image"
    /\ call.prompt = "make the image blue and sparkly"
    /\ call.done.requests # <<>>
    /\ call.done.requests[1].parts[2] = PartText("make the image blue and sparkly")

\* The provider operation of the last call was entered.
ProviderEntered ==
    /\ call.op \in {"edit_image", "generate_image", "combine_images"}
    /\ call.done.invoked # <<>>

KeyConfigured == gemini_api_key(environ, config_file) \notin {None, Str("")}

\* The exception, not a ProviderError, that the library raised in the
\* provider operation of the last call; None when it raised none.
ForeignException ==
    IF ~KeyConfigured THEN None
    ELSE IF "client_raises" \in DOMAIN call.response THEN Str(call.response.client_raises)
    ELSE IF "raises" \in DOMAIN call.response THEN Str(call.response.raises)
    ELSE IF call.response.candidates = <<>> THEN Str("IndexError")
    ELSE None

\* The result is a ProviderError made from the exception of type t: raised
\* from it, with its message after one "Gemini API error:".
WrapsOnce(result, t) ==
    /\ result.kind = "raise"
    /\ result.type = "ProviderError"
    /\ result.cause = t
    /\ Len(result.message) = 2
    /\ result.message[1] = "Gemini API error:"
    /\ "Gemini API error:" \notin Range(result.message[2])

\* C13 as stated: a provider operation that fails fails with a
\* ProviderError; an exception of another type raised inside it reaches the
\* caller as a ProviderError that wraps it once, and a ProviderError raised
\* inside it reaches the caller as it was raised, not wrapped.
C13_AsStated ==
    ProviderEntered =>
        /\ call.done.result.kind = "raise" => call.done.result.type = "ProviderError"
        /\ ForeignException # None => WrapsOnce(call.done.result, ForeignException.str)
        /\ (ForeignException = None /\ call.done.result.kind = "raise") =>
              /\ call.done.result.cause = None
              /\ call.done.result.message[1] # "Gemini API error:"

\* What holds of the code: C13 for the exceptions raised by the request and
\* by the reading of the answer, which the try statements enclose; what
\* genai.Client raises leaves the operation as it is.
C13_InsideTry ==
    ProviderEntered =>
        IF KeyConfigured /\ "client_raises" \in DOMAIN call.response
        THEN call.done.result =
                 RaisedFrom(call.response.client_raises, <<"client failure">>, None)
        ELSE /\ call.done.result.kind = "raise" => call.done.result.type = "ProviderError"
             /\ ForeignException # None => WrapsOnce(call.done.result, ForeignException.str)
             /\ (ForeignException = None /\ call.done.result.kind = "raise") =>
                   /\ call.done.result.cause = None
                   /\ call.done.result.message[1] # "Gemini API error:"

\* A request of the last call was answered, and the answer had no part
\* with an image.
AnsweredWithoutImage ==
    /\ ProviderEntered
    /\ call.done.requests # <<>>
    /\ response_parts(call.response).kind = "return"
    /\ first_image(response_parts(call.response).value) = <<>>

\* The texts of the parts of the answer of the last call.
AnswerTexts == text_parts_of(response_parts(call.response).value)

\* What C14 says of an answer without image.
TextSurfaced ==
    IF AnswerTexts # <<>>
    THEN /\ call.done.result.kind = "raise"
         /\ call.done.result.type = "ProviderError"
         /\ call.done.result.message =
                <<"Gemini returned text instead of image:">> \o AnswerTexts
    ELSE call.done.result =
             RaisedFrom("ProviderError", <<"Gemini response contained no image data">>, None)

\* C14 as stated: when the answer to an edit, generate or combine request
\* has no image part, the operation fails with a ProviderError; its message
\* carries the texts of the answer's parts, joined in their order, when there
\* are any, and says that there was no image data when there are none.
C14_AsStated ==
    AnsweredWithoutImage => TextSurfaced

\* What holds of the code: C14 for edit and combine; generate says that
\* there was no image data whether the answer had texts or not.
C14_ExceptGenerate ==
    AnsweredWithoutImage =>
        IF call.op = "generate_image"
        THEN call.done.result =
                 RaisedFrom("ProviderError", <<"Gemini response contained no image data">>, None)
        ELSE TextSurfaced

\* An operation of the orchestrator was called last.
Operated == call.op \in {"edit_image", "generate_image", "combine_images"}

\* C15: an edit, generate or combine operation calls the provider at most
\* once and sends at most one request, also when the request fails or the
\* answer has no image; it ends either with an EditResult that has the
\* bytes and the MIME type of the first image part of the answer, the
\* provider's name and the model, or with an error and no result at all.
C15_OneRequestOneOutcome ==
    Operated =>
        LET result == call.done.result
        IN  /\ Len(call.done.invoked) <= 1
            /\ Len(call.done.requests) <= 1
            /\ result.kind \in {"return", "raise"}
            /\ result.kind = "raise" => "value" \notin DOMAIN result
            /\ result.kind = "return" =>
                  /\ Len(call.done.requests) = 1
                  /\ response_parts(call.response).kind = "return"
                  /\ LET images == SelectSeq(response_parts(call.response).value,
                                             LAMBDA part : part.inline_data # None)
                     IN  /\ images # <<>>
                         /\ result.value =
                               EditResult(images[1].inline_data.data,
                                          images[1].inline_data.mime_type,
                                          "gemini", call.done.requests[1].model)

\* C15 witness: the request of an edit failed in transport; it was sent
\* once and the operation ended with the error.
C15_Witness ==
    /\ call.op = "edit_image"
    /\ "raises" \in DOMAIN call.response
    /\ Len(call.done.requests) = 1
    /\ call.done.result.kind = "raise"

\* C15 witness of the other outcome: the answer had a text part and two
\* image parts, and the result carries the first image.
C15_WitnessResult ==
    /\ Operated
    /\ call.response = [candidates |-> <<(<<TextPart, ImagePart, OtherImagePart>>)>>]
    /\ call.done.result.kind = "return"
    /\ call.done.result.value.image_data = ImagePart.inline_data.data
    /\ call.done.result.value.mime_type = "image/png"

\* The error _get_client raises when no key is configured.
KeyNotConfigured ==
    RaisedFrom("ProviderError", <<"Gemini API key not configured.">>, None)

\* C16: with no API key configured (none in the environment and the file,
\* or an empty one) the provider's edit, generate and combine each fail
\* with the ProviderError "Gemini API key not configured." and send no
\* request; with a key configured no failure of the operation is this
\* error, so its message tells it from every other failure.
C16_NoKeyNoRequest ==
    ProviderEntered =>
        IF KeyConfigured
        THEN call.done.result # KeyNotConfigured
        ELSE /\ call.done.result = KeyNotConfigured
             /\ call.done.requests = <<>>

\* C16 witness: a combine of two images with GEMINI_API_KEY set to the
\* empty string and no config file failed with the error and sent nothing.
C16_Witness ==
    /\ call.op = "combine_images"
    /\ Len(call.images) = 2
    /\ call.done.invoked # <<>>
    /\ "GEMINI_API_KEY" \in DOMAIN environ
    /\ ~config_file.exists
    /\ call.done.result = KeyNotConfigured
    /\ call.done.requests = <<>>

\* C16 witness of the other case: with a key configured an operation
\* failed, with another error.
C16_WitnessOtherFailure ==
    /\ ProviderEntered
    /\ KeyConfigured
    /\ call.done.result.kind = "raise"
    /\ call.done.result.type = "ProviderError"

\* C17: an operation given the provider name "gemini" gets a provider
\* named gemini; given any other name (also "Gemini") it ends with a
\* ValueError, and when get_provider was reached (always in edit_image and
\* generate_image, with two or more images in combine_images) the message
\* names the unknown provider and lists "gemini"; no provider was
\* constructed, none was handed a prompt and no request was sent.
C17_UnknownProvider ==
    Operated =>
        IF call.provider_name = "gemini"
        THEN \A i \in DOMAIN call.done.constructed : call.done.constructed[i] = "gemini"
        ELSE /\ call.done.result.kind = "raise"
             /\ call.done.result.type = "ValueError"
             /\ (call.op = "combine_images" => Len(call.images) >= 2) =>
                   /\ call.done.result.message[1] = "Unknown provider"
                   /\ call.provider_name \in Range(call.done.result.message)
                   /\ "gemini" \in Range(call.done.result.message)
             /\ call.done.constructed = <<>>
             /\ call.done.invoked = <<>>
             /\ call.done.requests = <<>>

\* C17 witness: edit_image with the provider name "Gemini", a template
\* name as prompt and a key configured ended with the ValueError before
\* the registry was built; nothing was sent.
C17_Witness ==
    /\ call.op = "edit_image"
    /\ call.provider_name = "Gemini"
    /\ call.prompt = "enhance"
    /\ KeyConfigured
    /\ _registry = 0
    /\ call.done.result.type = "ValueError"
    /\ "gemini" \in Range(call.done.result.message)
    /\ call.done.requests = <<>>

\* C17 witness of the other case: the name "gemini" gave a provider named
\* gemini.
C17_WitnessGemini ==
    /\ Operated
    /\ call.provider_name = "gemini"
    /\ call.done.constructed = <<"gemini">>
-----------------------------------------------------------------------------
(* Properties of utils/image.py, checked under SpecImage.                   *)

\* The signatures, byte by byte as the format descriptions give them.
Sig_PNG == <<8 * 16 + 9, 5 * 16, 4 * 16 + 14, 4 * 16 + 7, 13, 10, 16 + 10, 10>>

Sig_JPEG == <<255, 13 * 16 + 8, 255>>

Sig_RIFF == <<82, 73, 70, 70>>

Sig_WEBP == <<87, 69, 66, 80>>

Sig_GIF == {<<71, 73, 70, 56, 55, 97>>, <<71, 73, 70, 56, 57, 97>>}

\* data has the bytes sig from offset off on (from 0).
HasAt(data, off, sig) ==
    /\ Len(data) >= off + Len(sig)
    /\ \A i \in 1..Len(sig) : data[off + i] = sig[i]

\* The ordered first-match reference of the format detector.
DetectReference(data) ==
    IF Len(data) < 4 THEN None
    ELSE IF HasAt(data, 0, Sig_PNG) THEN ImageFormat_PNG
    ELSE IF HasAt(data, 0, Sig_JPEG) THEN ImageFormat_JPEG
    ELSE IF HasAt(data, 0, Sig_RIFF) /\ Len(data) >= 12 /\ HasAt(data, 8, Sig_WEBP)
         THEN ImageFormat_WEBP
    ELSE IF \E sig \in Sig_GIF : HasAt(data, 0, sig) THEN ImageFormat_GIF
    ELSE None

\* C18: detect_format gives on every byte string what the ordered
\* first-match reference gives: None below 4 bytes (also for FF D8 FF alone),
\* PNG for the 8 byte PNG signature, JPEG for FF D8 FF, WEBP for RIFF with
\* WEBP at bytes 8 to 11 (None for RIFF without it or below 12 bytes), GIF
\* for GIF87a and GIF89a, None for anything else; so the result is a
\* function of the bytes alone, and the call changes nothing.
C18_DetectFormat ==
    call.op = "detect_format" => call.ret = DetectReference(call.data)

\* C18 witness: detect_format of the 11 bytes RIFF, four zeros, WEB gave
\* None, and the three bytes FF D8 FF are no JPEG for it either.
C18_Witness ==
    /\ call.op = "detect_format"
    /\ call.data = <<82, 73, 70, 70, 0, 0, 0, 0, 87, 69, 66>>
    /\ call.ret = None
    /\ detect_format(<<255, 216, 255>>) = None
    /\ detect_format(<<255, 216, 255, 0>>) = ImageFormat_JPEG

\* C18 witness of a detection: the 12 bytes of a WebP header gave WEBP.
C18_WitnessWebp ==
    /\ call.op = "detect_format"
    /\ Len(call.data) = 12
    /\ call.ret = ImageFormat_WEBP

\* The pairs of an upper case letter and its lower case letter, for the
\* letters of the known extensions.
CasePairs ==
    {<<"P", "p">>, <<"N", "n">>, <<"G", "g">>, <<"J", "j">>, <<"E", "e">>,
     <<"W", "w">>, <<"B", "b">>, <<"I", "i">>, <<"F", "f">>}

\* s is the lower case word w in some mix of cases.
IsWord(s, w) ==
    /\ Len(s) = Len(w)
    /\ \A i \in 1..Len(w) : s[i] = w[i] \/ <<s[i], w[i]>> \in CasePairs

\* The format of an extension without dots, whatever its case.
FormatOfWord(s) ==
    IF IsWord(s, <<"p", "n", "g">>) THEN ImageFormat_PNG
    ELSE IF IsWord(s, <<"j", "p", "g">>) \/ IsWord(s, <<"j", "p", "e", "g">>)
         THEN ImageFormat_JPEG
    ELSE IF IsWord(s, <<"w", "e", "b", "p">>) THEN ImageFormat_WEBP
    ELSE IF IsWord(s, <<"g", "i", "f">>) THEN ImageFormat_GIF
    ELSE None

\* How many dots s starts with.
LeadingDots(s) ==
    CHOOSE k \in 0..Len(s) :
        /\ \A i \in 1..k : s[i] = "."
        /\ k < Len(s) => s[k + 1] # "."

\* s without its first n characters
Drop(s, n) == SubSeq(s, n + 1, Len(s))

ImageFormats == {ImageFormat_PNG, ImageFormat_JPEG, ImageFormat_WEBP, ImageFormat_GIF}

\* C19 as stated: format_from_extension gives the format of its input
\* without its leading dot (one dot, when it starts with a dot), whatever
\* the case, and None when that is no known extension; it gives f for the
\* extension of every format f.
C19_AsStated ==
    call.op = "format_from_extension" =>
        /\ call.ret =
              FormatOfWord(Drop(call.ext, IF LeadingDots(call.ext) > 0 THEN 1 ELSE 0))
        /\ \A f \in ImageFormats : call.ext = extension(f) => call.ret = f

\* C19 amended: format_from_extension gives the format of its input without
\* all its leading dots, whatever the case: PNG for png, JPEG for jpg and
\* jpeg, WEBP for webp, GIF for gif, None for anything else; it gives f for
\* the extension of every format f.
C19_AllLeadingDots ==
    call.op = "format_from_extension" =>
        /\ call.ret = FormatOfWord(Drop(call.ext, LeadingDots(call.ext)))
        /\ \A f \in ImageFormats : call.ext = extension(f) => call.ret = f

\* C19 witness: format_from_extension("..PNG") gave PNG.
C19_Witness ==
    /\ call.op = "format_from_extension"
    /\ call.ext = <<".", ".", "P", "N", "G">>
    /\ call.ret = ImageFormat_PNG

\* C19 witness of the round trip: the extension of JPEG, ".jpg", gave JPEG.
C19_WitnessRoundTrip ==
    /\ call.op = "format_from_extension"
    /\ call.ext = extension(ImageFormat_JPEG)
    /\ call.ext = <<".", "j", "p", "g">>
    /\ call.ret = ImageFormat_JPEG
-----------------------------------------------------------------------------
(* Properties of config.py, checked under SpecConfig.                       *)

\* The environment variable that stands for a key, "" for a key without.
EnvVarOf(key) ==
    CASE key = "api-key" -> "GEMINI_API_KEY"
      [] key = "model" -> "GEMINI_MODEL"
      [] key = "default-format" -> "IMAGE_EDIT_DEFAULT_FORMAT"
      [] key = "default-quality" -> "IMAGE_EDIT_DEFAULT_QUALITY"
      [] OTHER -> ""

\* The config file has the key.
FileHas(key) ==
    /\ config_file.exists
    /\ config_file.parses
    /\ key \in DOMAIN config_file.data

\* The built-in default of a key, None for a key without.
DefaultOf(key) ==
    CASE key = "model" -> Str("gemini-3-pro-image-preview")
      [] key = "default-format" -> Str("png")
      [] key = "default-quality" -> Str("1K")
      [] OTHER -> None

\* What the file and the defaults give for a key.
FileThenDefault(key) ==
    IF FileHas(key) THEN Str(str_of(config_file.data[key])) ELSE DefaultOf(key)

\* C20 as stated: get_config_value(key) is the value of the key's
\* environment variable when that variable is set; else the file's value
\* when the file has the key; else the default when there is one; else None.
C20_AsStated ==
    call.op = "get_config_value" =>
        call.ret = IF EnvVarOf(call.key) \in DOMAIN environ
                   THEN Str(environ[EnvVarOf(call.key)])
                   ELSE FileThenDefault(call.key)

\* C20 amended: get_config_value(key) is the value of the key's environment
\* variable when that variable is set to a string that is not empty; else
\* (also when the variable is set to the empty string) the file's value, as
\* a string, when the file has the key; else the default when there is one;
\* else None.
C20_Precedence ==
    call.op = "get_config_value" =>
        call.ret = IF /\ EnvVarOf(call.key) \in DOMAIN environ
                      /\ environ[EnvVarOf(call.key)] # ""
                   THEN Str(environ[EnvVarOf(call.key)])
                   ELSE FileThenDefault(call.key)

\* C20 witness: with GEMINI_MODEL set to the empty string and model in the
\* file, get_config_value("model") gave the file's value.
C20_Witness ==
    /\ call.op = "get_config_value"
    /\ call.key = "model"
    /\ "GEMINI_MODEL" \in DOMAIN environ
    /\ environ["GEMINI_MODEL"] = ""
    /\ FileHas("model")
    /\ config_file.data["model"] = TomlStr("from-file")
    /\ call.ret = Str("from-file")

\* C20 witness of the precedence: the variable, the file and the default
\* all have a value for model, and the variable's was given.
C20_WitnessEnv ==
    /\ call.op = "get_config_value"
    /\ call.key = "model"
    /\ FileHas("model")
    /\ call.ret = Str("from-env")

\* C20 witness of the last case: api-key, with no variable, no file entry
\* and no default, gave None.
C20_WitnessNone ==
    /\ call.op = "get_config_value"
    /\ call.key = "api-key"
    /\ call.ret = None

-----------------------------------------------------------------------------
(* Properties of the built-in catalog, of register and of the lazily built  *)
(* registry.                                                                *)

\* The process-wide registry exists and holds the built-in catalog alone.
SeededWithBuiltins ==
    /\ _registry # 0
    /\ log[_registry] = BUILTIN_TEMPLATES

\* C21: in a registry that was seeded with the built-in catalog alone, a
\* lookup of the name of a built-in template and of each of its aliases
\* returns this template: no name and no alias of the catalog is the name
\* or an alias of another template of the catalog.
C21_BuiltinsResolve ==
    SeededWithBuiltins =>
        \A i \in DOMAIN BUILTIN_TEMPLATES :
            \A n \in Range(all_names(BUILTIN_TEMPLATES[i])) :
                /\ get(heap[_registry], n) = BUILTIN_TEMPLATES[i]
                /\ \A j \in DOMAIN BUILTIN_TEMPLATES \ {i} :
                      n \notin Range(all_names(BUILTIN_TEMPLATES[j]))

\* C21 witness: with no user file, resolve_prompt("fix") gave the prompt
\* of enhance, and remove-bg and its three aliases give one template.
C21_Witness ==
    /\ SeededWithBuiltins
    /\ call.op = "resolve_prompt"
    /\ call.prompt = "fix"
    /\ call.result = Returned(get(heap[_registry], "enhance").prompt)
    /\ get(heap[_registry], "remove-bg").name = "remove-bg"
    /\ \A n \in {"nobg", "removebg", "background-remove"} :
          get(heap[_registry], n) = get(heap[_registry], "remove-bg")

\* The last two register calls of the run registered the same template.
RegisteredTwice ==
    /\ call.op = "register"
    /\ Len(log[1]) >= 2
    /\ log[1][Len(log[1]) - 1] = log[1][Len(log[1])]

\* C22: a register(T) that follows a register(T) changes nothing: the name
\* table, the alias table (entries and their order) and the list list_all
\* returns are after the second call what they were after the first,
\* whatever the registry held before.
C22_RegisterIdempotent ==
    RegisteredTwice =>
        /\ heap[1]._templates = call.pre._templates
        /\ heap[1]._alias_map = call.pre._alias_map
        /\ list_all(heap[1]) = list_all(call.pre)

\* C22 witness: a registry that held bw (with the aliases mono and fix)
\* was given fix, with the alias fix, twice; list_all has two templates.
C22_Witness ==
    /\ RegisteredTwice
    /\ Len(log[1]) = 3
    /\ log[1][1].name = "bw"
    /\ log[1][1].aliases = <<"mono", "fix">>
    /\ call.template.name = "fix"
    /\ call.template.aliases = <<"fix">>
    /\ Len(list_all(heap[1])) = 2
    /\ heap[1] = call.pre
\* C23: the first get_registry() builds one registry, from the built-ins
\* and then the user's templates; after that the global stays this
\* instance, no other is built, a get_registry() returns it and changes
\* nothing (it registers nothing and does not read the user's file again),
\* and no step removes a name or an alias from it, so what was registered
\* on it later is still there.
C23_InitOnce ==
    [][/\ (_registry = 0 /\ _registry' # 0) =>
             /\ _registry' = 1
             /\ heap' = <<register_all(TemplateRegistry,
                                       BUILTIN_TEMPLATES \o user_register_calls(templates_file))>>
       /\ _registry # 0 =>
             /\ _registry' = _registry
             /\ Len(heap') = Len(heap)
             /\ call'.op = "get_registry" =>
                   /\ call'.ret = _registry
                   /\ heap' = heap
             /\ \A n \in DOMAIN heap[_registry]._templates.val :
                   DictHas(heap'[_registry]._templates, n)
             /\ \A a \in DOMAIN heap[_registry]._alias_map.val :
                   DictHas(heap'[_registry]._alias_map, a)
             /\ \A k \in DOMAIN log[_registry] :
                   get(heap'[_registry], log[_registry][k].name) \notin {None, KeyError}
      ]_vars

\* C23 witness: the registry was built from a file without dusk, the
\* template late was registered on it, the file was rewritten to hold dusk,
\* and a later get_registry() returned the one instance, with late and
\* without dusk.
C23_Witness ==
    /\ call.op = "get_registry"
    /\ ~call.initialised
    /\ call.ret = 1
    /\ Len(heap) = 1
    /\ get(heap[1], "late") = Template("late", "Added late", "", <<"fix", "tardy">>)
    /\ get(heap[1], "tardy") = get(heap[1], "late")
    /\ Len(user_register_calls(templates_file)) = 1
    /\ user_register_calls(templates_file)[1].name = "dusk"
    /\ get(heap[1], "dusk") = None

\* C24: after any register calls, every alias of the alias table maps to a
\* name of the name table; so no lookup raises (the subscript of get finds
\* its key), and a string that a lookup resolved to a template before a
\* register is resolved to some template after it.
C24_AliasesResolve ==
    /\ \A a \in DOMAIN heap[1]._alias_map.val :
          DictHas(heap[1]._templates, DictGet(heap[1]._alias_map, a))
    /\ \A s \in TestKeys : get(heap[1], s) # KeyError
    /\ call.op = "get" => call.ret # KeyError
    /\ call.op = "register" =>
          \A s \in TestKeys :
              get(call.pre, s) # None => get(heap[1], s) \notin {None, KeyError}

\* C24 witness: after three register calls, the last of a template that
\* lists no alias, get("mono") found its template through the alias table.
C24_Witness ==
    /\ call.op = "get"
    /\ call.name = "mono"
    /\ Len(log[1]) = 3
    /\ log[1][3].aliases = <<>>
    /\ ~DictHas(heap[1]._templates, "mono")
    /\ DictHas(heap[1]._alias_map, "mono")
    /\ call.ret \notin {None, KeyError}

\* The last call registered a template under a name that was registered.
Reregistered ==
    /\ call.op = "register"
    /\ DictHas(call.pre._templates, call.template.name)

\* The template the name held before, and its aliases the new one drops.
EarlierTemplate == DictGet(call.pre._templates, call.template.name)

DroppedAliases == Range(EarlierTemplate.aliases) \ Range(call.template.aliases)

\* C25 as stated: after a name is registered again, an alias that the
\* earlier template of the name listed and the new one does not list is
\* looked up to the new template.
C25_AsStated ==
    Reregistered =>
        \A a \in DroppedAliases : get(heap[1], a) = call.template

\* C25 amended: after a name is registered again, an alias that the earlier
\* template of the name listed and the new one does not list is still in
\* the alias table, mapped to the name it was mapped to, and a lookup of it
\* finds a template: the new one when the alias is no registered name and
\* no template of another name has claimed it since, and then the new
\* template need not list the alias it was found by.
C25_AliasesNotRetracted ==
    Reregistered =>
        \A a \in DroppedAliases :
            /\ DictHas(call.pre._alias_map, a)
            /\ DictHas(heap[1]._alias_map, a)
            /\ DictGet(heap[1]._alias_map, a) = DictGet(call.pre._alias_map, a)
            /\ get(heap[1], a) \notin {None, KeyError}
            /\ (/\ ~DictHas(heap[1]._templates, a)
                /\ DictGet(call.pre._alias_map, a) = call.template.name) =>
                  get(heap[1], a) = call.template

\* C25 witness: bw was registered with the aliases mono and fix and then
\* again without aliases; get("mono") is the new template, which does not
\* list mono.
C25_Witness ==
    /\ Reregistered
    /\ call.template.name = "bw"
    /\ call.template.aliases = <<>>
    /\ "mono" \in DroppedAliases
    /\ call.template # EarlierTemplate
    /\ get(heap[1], "mono") = call.template
    /\ "mono" \notin Range(all_names(get(heap[1], "mono")))

-----------------------------------------------------------------------------
(* Properties of config.set_config_value, checked under SpecConfig.         *)

\* The keys and values a config file stores: those of its table, none when
\* the file is missing or is not TOML.
Stored(file) ==
    IF file.exists /\ file.parses THEN file.data ELSE <<>>

ValidKey(key) == key \in {"api-key", "model", "default-format", "default-quality"}

\* C26: set_config_value with a key that is no configuration key raises
\* ValueError and leaves the config file as it was; with a configuration
\* key it returns, the file stores the value under the key, and every other
\* key the file stored is stored with the value it had, and no further key.
C26_SetConfigValue ==
    call.op = "set_config_value" =>
        IF ~ValidKey(call.key)
        THEN /\ call.ret.kind = "raise"
             /\ call.ret.type = "ValueError"
             /\ config_file = call.pre
        ELSE /\ call.ret = Returned(None)
             /\ DOMAIN Stored(config_file) = DOMAIN Stored(call.pre) \cup {call.key}
             /\ Stored(config_file)[call.key] = TomlStr(call.value)
             /\ \A k \in DOMAIN Stored(call.pre) \ {call.key} :
                   Stored(config_file)[k] = Stored(call.pre)[k]

\* C26 witness: the file stored api-key, model and theme; model was set to
\* a new value, and api-key and theme are stored as before.
C26_Witness ==
    /\ call.op = "set_config_value"
    /\ call.key = "model"
    /\ call.value = "new"
    /\ DOMAIN Stored(call.pre) = {"api-key", "model", "theme"}
    /\ Stored(call.pre)["model"] = TomlInt(5)
    /\ Stored(config_file)["model"] = TomlStr("new")
    /\ Stored(config_file)["api-key"] = Stored(call.pre)["api-key"]
    /\ Stored(config_file)["theme"] = Stored(call.pre)["theme"]

\* C26 witness of the refusal: theme, a key the file stores but no
\* configuration key, raised ValueError and the file is as it was.
C26_WitnessInvalid ==
    /\ call.op = "set_config_value"
    /\ call.key = "theme"
    /\ call.ret.kind = "raise"
    /\ call.ret.type = "ValueError"
    /\ "theme" \in DOMAIN Stored(call.pre)
    /\ config_file = call.pre

\* C26 witness of a file that is not TOML: it is replaced by a table that
\* stores the key alone.
C26_WitnessUnparsed ==
    /\ call.op = "set_config_value"
    /\ call.pre.exists
    /\ ~call.pre.parses
    /\ DOMAIN Stored(config_file) = {call.key}

====
